---------------------------- MODULE Spec2Model ----------------------------
(***************************************************************************)
(* RBDtector annotation conversion: the batch dispatcher (auto_convert.py),*)
(* the format classifier (detect_edf_format.py), the converter children it *)
(* starts, and the embedded-annotation extractor                           *)
(* (convert_edf_annotations.py).                                           *)
(*                                                                         *)
(* Text is a sequence of pieces (strings); the empty text is <<>>.  A name *)
(* whose letter case matters (a file extension, an annotation label) is a  *)
(* sequence of one-character strings, so that substring search and         *)
(* lower-casing are computed and not looked up.  Python's None is the      *)
(* record None, a str s is Str(s).                                         *)
(***************************************************************************)
EXTENDS Integers, Sequences, FiniteSets, TLC

\* ------------------------------------------------------------------ bounds
\* Most entries a directory listing holds in Spec.
MaxFiles == 2
\* Convertible recordings of the batch scenario (spec.md, section 8: 3 + 1).
ScenarioConvertible == 3
\* Most annotations a recording holds in SpecExtract.
MaxAnn == 2
\* Most runs of the extractor on one recording in SpecExtract.
MaxRuns == 2
\* Most rows a spreadsheet grid holds in SpecSheet.
MaxRows == 2
\* Most channels a probed file holds in SpecDetect.
MaxChannels == 2
\* Most samples a channel of the normalized recording holds in SpecSignal.
MaxSamples == 3
\* Highest sampling frequency, in whole hertz, in SpecSignal.
MaxRate == 2

\* ------------------------------------------------------------ text helpers
None == [none |-> TRUE, text |-> <<>>]
Str(t) == [none |-> FALSE, text |-> t]

UpperCase == <<"A","B","C","D","E","F","G","H","I","J","K","L","M",
               "N","O","P","Q","R","S","T","U","V","W","X","Y","Z">>
LowerCase == <<"a","b","c","d","e","f","g","h","i","j","k","l","m",
               "n","o","p","q","r","s","t","u","v","w","x","y","z">>

\* str.lower() of one character.
LowerChar(c) ==
    IF \E n \in DOMAIN UpperCase : UpperCase[n] = c
    THEN LowerCase[CHOOSE n \in DOMAIN UpperCase : UpperCase[n] = c]
    ELSE c

\* str.lower()
Lower(s) == [n \in DOMAIN s |-> LowerChar(s[n])]

\* Python's `needle in s` on strings.
Contains(s, needle) ==
    \E n \in 0..(Len(s) - Len(needle)) : SubSeq(s, n + 1, n + Len(needle)) = needle

\* ----------------------------------------------------------- file system
ext_edf == <<"e","d","f">>
ext_EDF == <<"E","D","F">>
ext_Edf == <<"E","d","f">>
ext_xlsx == <<"x","l","s","x">>
ext_XLSX == <<"X","L","S","X">>

Depths == {0, 1}

\* A recording as the programs meet it: what the structured reader reports
\* of it, which sibling spreadsheets exist, and how each converter child
\* fares on it.
PlainRecording ==
    [exists |-> TRUE, opens |-> TRUE, filetype |-> 1, annotations_in_file |-> 1,
     xlsx |-> FALSE, XLSX |-> FALSE,
     spawn |-> "ok", extractor |-> "ok", normalizer |-> "ok", sheet |-> "ok"]

StandardRecording ==
    [PlainRecording EXCEPT !.opens = FALSE, !.filetype = 0, !.annotations_in_file = 0]

RecordingKinds ==
    { PlainRecording,
      [PlainRecording EXCEPT !.extractor = "corrupt"],
      [PlainRecording EXCEPT !.extractor = "killed"],
      [PlainRecording EXCEPT !.spawn = "oserror"],
      [PlainRecording EXCEPT !.annotations_in_file = 0],
      [PlainRecording EXCEPT !.filetype = 2],
      [PlainRecording EXCEPT !.exists = FALSE],
      StandardRecording,
      [StandardRecording EXCEPT !.xlsx = TRUE],
      [StandardRecording EXCEPT !.xlsx = TRUE, !.normalizer = "unreadable"],
      [StandardRecording EXCEPT !.xlsx = TRUE, !.normalizer = "unverified"],
      [StandardRecording EXCEPT !.xlsx = TRUE, !.sheet = "bad"] }

\* A directory entry: its name (stem, extension, depth below the directory
\* given on the command line) and the recording behind it.
Entry(stem, ext, depth, rec) ==
    [stem |-> stem, ext |-> ext, depth |-> depth, rec |-> rec]

\* Path objects: the recording itself has tail "", a file written next to
\* it has the recording's stem, no extension of its own and a tail.
PathOf(e) == [depth |-> e.depth, stem |-> e.stem, ext |-> e.ext, tail |-> ""]
Sibling(e, ext) == [depth |-> e.depth, stem |-> e.stem, ext |-> ext, tail |-> ""]
OutputPath(e, tail) == [depth |-> e.depth, stem |-> e.stem, ext |-> <<>>, tail |-> tail]

SleepProfileTail == " Sleep profile.txt"
ArousalsTail == " Classification Arousals.txt"
FlowEventsTail == " Flow Events.txt"
EdfPlusTail == "_edfplus.edf"
TextTails == {SleepProfileTail, ArousalsTail, FlowEventsTail}
OutputTails == TextTails \cup {EdfPlusTail}


\* ------------------------------------------------------------- classifier
\* detect_edf_format without its existence check: a missing file falls through
\* to the reader, which fails to open it.
detect_without_exists_check(e) ==
    LET excel == IF e.rec.exists /\ e.rec.xlsx THEN Str(ext_xlsx)
                 ELSE IF e.rec.exists /\ e.rec.XLSX THEN Str(ext_XLSX) ELSE None
    IN  IF e.rec.exists /\ e.rec.opens
        THEN [type |-> IF e.rec.filetype = 1 THEN "EDF+C"
                       ELSE IF e.rec.filetype = 2 THEN "EDF+D" ELSE "Standard",
              has_annotations |-> e.rec.annotations_in_file > 0,
              pyedflib_compatible |-> TRUE,
              excel_file |-> excel, error |-> None]
        ELSE [type |-> "Standard", has_annotations |-> FALSE,
              pyedflib_compatible |-> FALSE,
              excel_file |-> excel, error |-> None]

\* detect_edf_format: the fields the dispatcher reads.  excel_file is the
\* extension of the sibling spreadsheet found ('.xlsx' tried first).
detect_edf_format(e) ==
    IF ~e.rec.exists
    THEN [type |-> "Invalid", has_annotations |-> FALSE, pyedflib_compatible |-> FALSE,
          excel_file |-> None, error |-> Str(<<"File not found: ", "<edf_path>">>)]
    ELSE LET excel == IF e.rec.xlsx THEN Str(ext_xlsx)
                      ELSE IF e.rec.XLSX THEN Str(ext_XLSX) ELSE None
         IN  IF e.rec.opens
             THEN [type |-> IF e.rec.filetype = 1 THEN "EDF+C"
                            ELSE IF e.rec.filetype = 2 THEN "EDF+D" ELSE "Standard",
                   has_annotations |-> e.rec.annotations_in_file > 0,
                   pyedflib_compatible |-> TRUE,
                   excel_file |-> excel, error |-> None]
             ELSE [type |-> "Standard", has_annotations |-> FALSE,
                   pyedflib_compatible |-> FALSE,
                   excel_file |-> excel, error |-> None]

NoResult ==
    [type |-> "Unset", has_annotations |-> FALSE, pyedflib_compatible |-> FALSE,
     excel_file |-> None, error |-> None]

\* ------------------------------------------------------ converter children
ExtractorScript == "convert_edf_annotations.py"
NormalizerScript == "convert_standard_to_edfplus.py"
SpreadsheetScript == "convert_excel_annotations.py"

TextOutputs(e) == {OutputPath(e, t) : t \in TextTails}

Exited(d, rc, out, err) == [disk |-> d, returncode |-> rc, stdout |-> out, stderr |-> err]

\* The paths a converter child opens for writing when it runs on e.
ChildWrites(script, e) ==
    CASE script = ExtractorScript ->
           IF e.rec.extractor = "ok" THEN TextOutputs(e) ELSE {}
      [] script = NormalizerScript ->
           IF e.rec.normalizer \in {"ok", "unverified"}
           THEN {OutputPath(e, EdfPlusTail)} ELSE {}
      [] OTHER -> IF e.rec.sheet = "ok" THEN TextOutputs(e) ELSE {}

\* The disk after the files of `wrote` were written.
Written(d, wrote) == [p \in DOMAIN d |-> IF p \in wrote THEN "fresh" ELSE d[p]]

\* python convert_edf_annotations.py <edf>: every exception raised while
\* the recording is read or the files are written is caught and printed, and
\* the script ends normally.
ExtractorChild(e, d) ==
    CASE e.rec.extractor = "ok" ->
           Exited(Written(d, ChildWrites(ExtractorScript, e)),
                  0, <<"Successfully converted annotations">>, <<>>)
      [] e.rec.extractor = "corrupt" ->
           Exited(d, 0, <<"An error occurred while processing">>, <<>>)
      [] OTHER -> Exited(d, -9, <<>>, <<>>)

\* The conversion that reports success as soon as the file is written.
convert_without_verification(e) ==
    IF e.rec.normalizer = "unreadable"
    THEN [success |-> FALSE, written |-> FALSE, error |-> Str(<<"<exception>">>)]
    ELSE [success |-> TRUE, written |-> TRUE, error |-> None]

\* convert_standard_to_edfplus(input_edf, output_edf): the result dict, and
\* whether the output file was written.  The file is written and closed
\* first and re-opened with the structured reader after that.
convert_standard_to_edfplus(e) ==
    IF e.rec.normalizer = "unreadable"
    THEN [success |-> FALSE, written |-> FALSE, error |-> Str(<<"<exception>">>)]
    ELSE IF e.rec.normalizer = "unverified"
    THEN [success |-> FALSE, written |-> TRUE,
          error |-> Str(<<"Verification failed: ", "<exception>">>)]
    ELSE [success |-> TRUE, written |-> TRUE, error |-> None]

\* python convert_standard_to_edfplus.py <edf> <out>: exit code 0 only when
\* the result says success; the traceback of a failed conversion goes to
\* standard error, every other message to standard output.
NormalizerChild(e, d) ==
    LET res == convert_standard_to_edfplus(e)
        after == IF res.written THEN Written(d, ChildWrites(NormalizerScript, e)) ELSE d
    IN  IF res.success THEN Exited(after, 0, <<"CONVERSION SUCCESSFUL!">>, <<>>)
        ELSE IF res.written
        THEN Exited(after, 1, <<"Error: ">> \o res.error.text, <<>>)
        ELSE Exited(after, 1, <<"Conversion FAILED: ">>, <<"Traceback">>)

\* python convert_excel_annotations.py <edf> <xlsx>
SpreadsheetChild(e, d) ==
    IF e.rec.sheet = "ok"
    THEN Exited(Written(d, ChildWrites(SpreadsheetScript, e)),
                0, <<"Conversion successful!">>, <<>>)
    ELSE Exited(d, 1, <<"Conversion failed: ">>, <<>>)

RunChild(script, e, d) ==
    CASE script = ExtractorScript -> ExtractorChild(e, d)
      [] script = NormalizerScript -> NormalizerChild(e, d)
      [] OTHER -> SpreadsheetChild(e, d)

NoProc == [script |-> "", args |-> <<>>]
NoExit == [returncode |-> 0, stdout |-> <<>>, stderr |-> <<>>]
NoOutcome ==
    [success |-> FALSE, converter_used |-> None, output_files |-> <<>>, error |-> None]

\* ------------------------------------------------------------------ state
VARIABLES
    target,           \* what sys.argv[1] names: "missing", "file", "dir", "other"
    dir,              \* the entries under it, in the order the OS lists them
    disk,             \* output path -> "absent" | "stale" (an earlier run) | "fresh"
    pc,               \* where main() stands
    edf_files,        \* convert_directory: indices into dir, in batch order
    pos,              \* convert_directory: the loop's position in edf_files
    cur,              \* index into dir of the file convert_single_file is given
    result,           \* convert_single_file: the classifier's verdict
    converter_used, output_files, error,
    proc,             \* the converter child that is running, or NoProc
    completed,        \* subprocess.run's return value for the last child
    spawned,          \* the subprocess.run calls made for the current file
    outcome,          \* convert_single_file's return value
    results, success_count, failed_count,
    batch_result,     \* convert_directory's return value
    exitcode,
    terminal,         \* what the children wrote to the streams they inherited
    written_by        \* output path -> the files (indices into dir) whose
                      \* conversion wrote it, in the order of the writes

ioVars == <<terminal, written_by>>

batchVars ==
    <<target, dir, disk, pc, edf_files, pos, cur, result, converter_used,
      output_files, error, proc, completed, spawned, outcome, results,
      success_count, failed_count, batch_result, exitcode, ioVars>>

\* The extractor's own state (convert_edf_annotations).
VARIABLES
    recording,        \* the recording on disk: header start time, annotation list
    files,            \* the three text files next to it
    x_pc,             \* where convert_edf_annotations stands
    start_datetime, annotations,
    ann_i,            \* the loop's i
    sleep_stages, arousals, flow_events,
    effective_start,
    runs,             \* how many times the extractor was started on the recording
    first_files       \* the three text files as the first run left them

extractVars ==
    <<recording, files, x_pc, start_datetime, annotations, ann_i, sleep_stages,
      arousals, flow_events, effective_start, runs, first_files>>

\* The spreadsheet-annotation extractor's state (convert_excel_annotations).
VARIABLES
    df,               \* the grid read from the spreadsheet, one entry per row
    edf_start_time,   \* the start time read from the recording's header
    xl_pc,            \* where convert_excel_annotations stands
    xl_sleep_stages, xl_arousals, xl_flow_events,
    xl_files,         \* the three text files next to the recording
    xl_warnings       \* the cells parse_timestamp printed a warning about

sheetVars ==
    <<df, edf_start_time, xl_pc, xl_sleep_stages, xl_arousals, xl_flow_events,
      xl_files, xl_warnings>>

\* The classifier's state (detect_edf_format) and the file it probes.
VARIABLES
    probe,            \* the file on disk that is classified
    d_pc,             \* where detect_edf_format stands
    handles,          \* the handles on the file that are open
    d_result,         \* detect_edf_format's result dict
    d_signal,         \* the loop's i over the channel labels
    source            \* the recording the probed file was converted from,
                      \* and the result dict it was given

detectVars == <<probe, d_pc, handles, d_result, d_signal, source>>

\* The header-normalizing converter's signal data
\* (convert_standard_to_edfplus, steps 1 to 4).
VARIABLES
    raw,                \* what MNE read: ch_names, the samples, sfreq
    n_pc,               \* where convert_standard_to_edfplus stands
    data,               \* the array raw.get_data() returned, as it is changed
    channels_converted, \* the names of the channels that were rescaled
    signal_headers,     \* the headers given to setSignalHeaders
    samples_per_record,
    n_records,
    record_idx,         \* the record loop's index
    samples_written             \* the calls of writePhysicalSamples so far

signalVars ==
    <<raw, n_pc, data, channels_converted, signal_headers, samples_per_record,
      n_records, record_idx, samples_written>>

notBatch == <<extractVars, sheetVars, detectVars, signalVars>>
notExtract == <<batchVars, sheetVars, detectVars, signalVars>>
notSheet == <<batchVars, extractVars, detectVars, signalVars>>
notDetect == <<batchVars, extractVars, sheetVars, signalVars>>
notSignal == <<batchVars, extractVars, sheetVars, detectVars>>

NoBatch == [none |-> TRUE, total |-> 0, success |-> 0, failed |-> 0, results |-> <<>>]
NoExitCode == -1

\* --------------------------------------------------------- the dispatcher
Indices(d) == [k \in 1..Len(d) |-> k]

\* directory_path.glob('*.<ext>'): the direct children whose name ends in
\* '.<ext>', letter for letter, in the order the OS lists them.
Glob(d, ext) ==
    LET hit(k) == d[k].depth = 0 /\ d[k].ext = ext
    IN  SelectSeq(Indices(d), hit)

\* convert_directory: list(glob('*.EDF')) + list(glob('*.edf'))
FindEdfFiles(d) == Glob(d, ext_EDF) \o Glob(d, ext_edf)

TextOutputList(e) ==
    <<OutputPath(e, SleepProfileTail), OutputPath(e, ArousalsTail),
      OutputPath(e, FlowEventsTail)>>

\* sys.exit(0 if result['success'] else 1)
ExitCodeSingle(o) == IF o.success THEN 0 ELSE 1

\* The batch exit code decided on the successes instead of the failures.
ExitCodeOnAnySuccess(b) == IF b.none THEN 1 ELSE IF b.success > 0 THEN 0 ELSE 1

\* sys.exit(1) for None, else sys.exit(0 if batch_result['failed'] == 0 else 1)
ExitCodeBatch(b) == IF b.none THEN 1 ELSE IF b.failed = 0 THEN 0 ELSE 1

\* The frame of convert_single_file, before its first statement.
FrameCleared ==
    /\ result' = NoResult
    /\ converter_used' = None
    /\ output_files' = <<>>
    /\ error' = None
    /\ completed' = NoExit
    /\ spawned' = <<>>
    /\ outcome' = NoOutcome

\* main(): the argument is looked at, and a directory is globbed.
Main ==
    /\ pc = "main"
    /\ IF target \in {"missing", "other"}
       THEN /\ exitcode' = 1
            /\ pc' = "exit"
            /\ UNCHANGED <<edf_files, pos, cur, batch_result>>
       ELSE IF target = "file"
       THEN /\ cur' = 1
            /\ pc' = "classify"
            /\ UNCHANGED <<edf_files, pos, batch_result, exitcode>>
       ELSE /\ edf_files' = FindEdfFiles(dir)
            /\ IF edf_files' = <<>>
               THEN /\ batch_result' = NoBatch
                    /\ exitcode' = ExitCodeBatch(batch_result')
                    /\ pc' = "exit"
                    /\ UNCHANGED <<pos, cur>>
               ELSE /\ pos' = 1
                    /\ cur' = edf_files'[1]
                    /\ pc' = "classify"
                    /\ UNCHANGED <<batch_result, exitcode>>
    /\ UNCHANGED <<target, dir, disk, result, converter_used, output_files, error,
                   proc, completed, spawned, outcome, results, success_count,
                   failed_count>>
    /\ UNCHANGED ioVars
    /\ UNCHANGED notBatch

\* convert_single_file, step 1: the classifier is called, and an Invalid
\* verdict is returned at once.
Classify ==
    /\ pc = "classify"
    /\ result' = detect_edf_format(dir[cur])
    /\ IF result'.type = "Invalid"
       THEN /\ outcome' = [success |-> FALSE, converter_used |-> None,
                           output_files |-> <<>>, error |-> result'.error]
            /\ pc' = "returned"
       ELSE /\ outcome' = NoOutcome
            /\ pc' = "select"
    /\ converter_used' = None
    /\ output_files' = <<>>
    /\ error' = None
    /\ UNCHANGED <<target, dir, disk, edf_files, pos, cur, proc, completed, spawned,
                   results, success_count, failed_count, batch_result, exitcode>>
    /\ UNCHANGED ioVars
    /\ UNCHANGED notBatch

\* The exception of a failed subprocess.run call left uncaught: it unwinds
\* convert_single_file, convert_directory and main.
UncaughtError(msg) == [error |-> Str(msg), pc |-> "crashed"]

\* except Exception as e: error = str(e)
CaughtError(msg) == [error |-> Str(msg), pc |-> "report"]

\* The child started without waiting for its end, as subprocess.Popen does.
SpawnWithoutWaiting(script, args) ==
    /\ spawned' = Append(spawned, [script |-> script, args |-> args])
    /\ proc' = [script |-> script, args |-> args]
    /\ pc' = "check"
    /\ error' = error

\* subprocess.run(cmd, capture_output=True, text=True): the call is made;
\* the child starts, or the call raises inside the try block.
Spawn(script, args) ==
    /\ spawned' = Append(spawned, [script |-> script, args |-> args])
    /\ IF dir[cur].rec.spawn = "ok"
       THEN /\ proc' = [script |-> script, args |-> args]
            /\ pc' = "wait"
            /\ error' = error
       ELSE /\ proc' = NoProc
            /\ pc' = CaughtError(<<"[Errno 12] Cannot allocate memory">>).pc
            /\ error' = CaughtError(<<"[Errno 12] Cannot allocate memory">>).error

\* convert_single_file, step 2: the strategy is chosen by the verdict.
SelectConverter ==
    /\ pc = "select"
    /\ LET e == dir[cur] IN
       IF result.type = "EDF+C" /\ result.has_annotations
       THEN /\ converter_used' = Str(<<ExtractorScript>>)
            /\ Spawn(ExtractorScript, <<PathOf(e)>>)
       ELSE IF result.type = "EDF+D"
       THEN /\ converter_used' =
                   Str(<<"convert_test8_to_continuous.py + convert_edf_annotations.py">>)
            /\ error' = Str(<<"EDF+D conversion not yet fully automated. Please use convert_test8_to_continuous.py manually.">>)
            /\ pc' = "report"
            /\ UNCHANGED <<proc, spawned>>
       ELSE IF result.type = "Standard" /\ ~result.excel_file.none
       THEN /\ converter_used' =
                   Str(<<"convert_excel_annotations.py + convert_standard_to_edfplus.py">>)
            /\ Spawn(NormalizerScript, <<PathOf(e), OutputPath(e, EdfPlusTail)>>)
       ELSE /\ error' = Str(<<"No suitable converter found for this EDF format">>)
            /\ pc' = "report"
            /\ UNCHANGED <<converter_used, proc, spawned>>
    /\ UNCHANGED <<target, dir, disk, edf_files, pos, cur, result, output_files,
                   completed, outcome, results, success_count, failed_count,
                   batch_result, exitcode>>
    /\ UNCHANGED ioVars
    /\ UNCHANGED notBatch

\* The child's streams left on the terminal of the parent (no capture).
Inherited(r) ==
    [completed |-> [returncode |-> r.returncode, stdout |-> <<>>, stderr |-> <<>>],
     terminal |-> r.stdout \o r.stderr]

\* capture_output=True, text=True: both streams of the child are pipes that
\* subprocess.run reads to their end.
Captured(r) ==
    [completed |-> [returncode |-> r.returncode, stdout |-> r.stdout,
                    stderr |-> r.stderr],
     terminal |-> <<>>]

\* The child runs to its end while subprocess.run blocks.
ChildExit ==
    /\ pc = "wait"
    /\ LET r == RunChild(proc.script, dir[cur], disk) IN
       /\ disk' = r.disk
       /\ completed' = Captured(r).completed
       /\ terminal' = terminal \o Captured(r).terminal
    /\ written_by' = [p \in DOMAIN written_by |->
                        IF p \in ChildWrites(proc.script, dir[cur])
                        THEN Append(written_by[p], cur) ELSE written_by[p]]
    /\ proc' = NoProc
    /\ pc' = "check"
    /\ UNCHANGED <<target, dir, edf_files, pos, cur, result, converter_used,
                   output_files, error, spawned, outcome, results, success_count,
                   failed_count, batch_result, exitcode>>
    /\ UNCHANGED notBatch

\* convert_single_file: the return code of the child that just ended.
CheckReturn ==
    /\ pc = "check"
    /\ LET e == dir[cur]
           script == spawned[Len(spawned)].script
       IN
       IF script = ExtractorScript
       THEN /\ IF completed.returncode # 0
               THEN /\ error' = Str(<<"Converter failed: ">> \o completed.stderr)
                    /\ output_files' = output_files
               ELSE /\ output_files' = TextOutputList(e)
                    /\ error' = error
            /\ pc' = "report"
            /\ UNCHANGED <<proc, spawned>>
       ELSE IF script = NormalizerScript
       THEN IF completed.returncode # 0
            THEN /\ error' = Str(<<"EDF conversion failed: ">> \o completed.stderr)
                 /\ pc' = "report"
                 /\ UNCHANGED <<output_files, proc, spawned>>
            ELSE /\ Spawn(SpreadsheetScript,
                          <<PathOf(e), Sibling(e, result.excel_file.text)>>)
                 /\ UNCHANGED output_files
       ELSE /\ IF completed.returncode # 0
               THEN /\ error' = Str(<<"Annotation conversion failed: ">> \o completed.stderr)
                    /\ output_files' = output_files
               ELSE /\ output_files' = <<OutputPath(e, EdfPlusTail)>> \o TextOutputList(e)
                    /\ error' = error
            /\ pc' = "report"
            /\ UNCHANGED <<proc, spawned>>
    /\ UNCHANGED <<target, dir, disk, edf_files, pos, cur, result, converter_used,
                   completed, outcome, results, success_count, failed_count,
                   batch_result, exitcode>>
    /\ UNCHANGED ioVars
    /\ UNCHANGED notBatch

\* The return that reports success whenever a converter was chosen.
ReportByConverter ==
    /\ pc = "report"
    /\ outcome' = [success |-> ~converter_used.none, converter_used |-> converter_used,
                   output_files |-> output_files, error |-> error]
    /\ pc' = "returned"
    /\ UNCHANGED <<target, dir, disk, edf_files, pos, cur, result, converter_used,
                   output_files, error, proc, completed, spawned, results,
                   success_count, failed_count, batch_result, exitcode>>
    /\ UNCHANGED ioVars
    /\ UNCHANGED notBatch

\* convert_single_file, step 3: success = error is None, and the return.
Report ==
    /\ pc = "report"
    /\ outcome' = [success |-> error.none, converter_used |-> converter_used,
                   output_files |-> output_files, error |-> error]
    /\ pc' = "returned"
    /\ UNCHANGED <<target, dir, disk, edf_files, pos, cur, result, converter_used,
                   output_files, error, proc, completed, spawned, results,
                   success_count, failed_count, batch_result, exitcode>>
    /\ UNCHANGED ioVars
    /\ UNCHANGED notBatch

\* main(), single file: the exit code.
SingleExit ==
    /\ pc = "returned"
    /\ target = "file"
    /\ exitcode' = ExitCodeSingle(outcome)
    /\ pc' = "exit"
    /\ UNCHANGED <<target, dir, disk, edf_files, pos, cur, result, converter_used,
                   output_files, error, proc, completed, spawned, outcome, results,
                   success_count, failed_count, batch_result>>
    /\ UNCHANGED ioVars
    /\ UNCHANGED notBatch

\* A counter that counts every file.
TallyEveryFile(count, hit) == count + 1

\* success_count += 1 / failed_count += 1
Tally(count, hit) == IF hit THEN count + 1 ELSE count

\* for i, edf_file in enumerate(edf_files, 1): the position after this file.
NextPosition(p) == p + 1

\* convert_directory: the loop body after convert_single_file returned.
BatchRecord ==
    /\ pc = "returned"
    /\ target = "dir"
    /\ results' = Append(results, [file |-> PathOf(dir[cur]), result |-> outcome])
    /\ success_count' = Tally(success_count, outcome.success)
    /\ failed_count' = Tally(failed_count, ~outcome.success)
    /\ IF NextPosition(pos) <= Len(edf_files)
       THEN /\ pos' = NextPosition(pos)
            /\ cur' = edf_files[pos']
            /\ pc' = "classify"
       ELSE /\ pc' = "summary"
            /\ UNCHANGED <<pos, cur>>
    /\ FrameCleared
    /\ UNCHANGED <<target, dir, disk, edf_files, proc, batch_result, exitcode>>
    /\ UNCHANGED ioVars
    /\ UNCHANGED notBatch

\* convert_directory returns its summary and main() exits on it.
BatchSummary ==
    /\ pc = "summary"
    /\ batch_result' = [none |-> FALSE, total |-> Len(edf_files),
                        success |-> success_count, failed |-> failed_count,
                        results |-> results]
    /\ exitcode' = ExitCodeBatch(batch_result')
    /\ pc' = "exit"
    /\ UNCHANGED <<target, dir, disk, edf_files, pos, cur, result, converter_used,
                   output_files, error, proc, completed, spawned, outcome, results,
                   success_count, failed_count>>
    /\ UNCHANGED ioVars
    /\ UNCHANGED notBatch

BatchNext ==
    \/ Main
    \/ Classify
    \/ SelectConverter
    \/ ChildExit
    \/ CheckReturn
    \/ Report
    \/ SingleExit
    \/ BatchRecord
    \/ BatchSummary

\* The directory entries a listing may hold at its k-th place: a recording
\* of any kind named '<k>.edf', a plain one named '<k>.EDF', one with its
\* extension in mixed case, one a level further down, and a plain one named
\* '1.EDF' like the first entry but for the case of its extension.
Entries(k) ==
    {Entry(k, ext_edf, 0, rec) : rec \in RecordingKinds}
        \cup {Entry(k, ext_EDF, 0, PlainRecording),
              Entry(k, ext_Edf, 0, PlainRecording),
              Entry(k, ext_edf, 1, PlainRecording)}
        \cup (IF k > 1 THEN {Entry(1, ext_EDF, 0, PlainRecording)} ELSE {})

\* Two entries of one directory: their paths differ, and entries of the same
\* stem see the same sibling spreadsheets.
Compatible(e, f) ==
    /\ PathOf(e) # PathOf(f)
    /\ (e.stem = f.stem /\ e.depth = f.depth) =>
          (e.rec.xlsx = f.rec.xlsx /\ e.rec.XLSX = f.rec.XLSX)

\* The listings of n entries.
RECURSIVE Listings(_)
Listings(n) ==
    IF n = 0 THEN {<<>>}
    ELSE UNION {{Append(d, e) : e \in {f \in Entries(n) :
                                      \A k \in 1..(n - 1) : Compatible(d[k], f)}} :
                d \in Listings(n - 1)}

OutputsOf(d) == {OutputPath(d[k], t) : k \in DOMAIN d, t \in OutputTails}

BatchStart ==
    /\ pc = "main"
    /\ edf_files = <<>>
    /\ pos = 0
    /\ cur = 0
    /\ result = NoResult
    /\ converter_used = None
    /\ output_files = <<>>
    /\ error = None
    /\ proc = NoProc
    /\ completed = NoExit
    /\ spawned = <<>>
    /\ outcome = NoOutcome
    /\ results = <<>>
    /\ success_count = 0
    /\ failed_count = 0
    /\ batch_result = NoBatch
    /\ exitcode = NoExitCode
    /\ terminal = <<>>
    /\ written_by = [p \in OutputsOf(dir) |-> <<>>]

\* The paths the command line may name, and what lies under them.
BatchInit ==
    /\ target \in {"missing", "file", "dir", "other"}
    /\ dir \in CASE target = "dir" -> UNION {Listings(n) : n \in 0..MaxFiles}
                 [] target = "file" -> {d \in Listings(1) : d[1].rec.exists}
                 [] OTHER -> {<<>>}
    /\ \E prior \in {"absent", "stale"} : disk = [p \in OutputsOf(dir) |-> prior]
    /\ BatchStart

\* ------------------------------------------ embedded-annotation extractor
\* A datetime is [s, us]: whole seconds counted from 00:00:00 of the calendar
\* day of the recording's header, and microseconds 0..999999.  A timedelta
\* has the same shape (days folded into s), as Python normalises it.
MicrosPerSecond == 1000000
SecondsPerMinute == 60
SecondsPerHour == 60 * SecondsPerMinute
SecondsPerDay == 24 * SecondsPerHour

Time(s, us) == [s |-> s, us |-> us]

\* datetime + timedelta
Plus(t, d) ==
    [s |-> t.s + d.s + ((t.us + d.us) \div MicrosPerSecond),
     us |-> (t.us + d.us) % MicrosPerSecond]

\* datetime - datetime
Minus(t, u) ==
    LET us == t.us - u.us
    IN  IF us >= 0 THEN [s |-> t.s - u.s, us |-> us]
        ELSE [s |-> t.s - u.s - 1, us |-> us + MicrosPerSecond]

\* dt.replace(microsecond=0)
DropMicroseconds(t) == [t EXCEPT !.us = 0]

\* dt.strftime('%d.%m.%Y %H:%M:%S'): the day (counted from the header's day)
\* and the time of day to the second.
FormatDateTime(t) ==
    [day |-> t.s \div SecondsPerDay,
     hour |-> (t.s % SecondsPerDay) \div SecondsPerHour,
     minute |-> (t.s % SecondsPerHour) \div SecondsPerMinute,
     second |-> t.s % SecondsPerMinute]

\* dt.strftime('%H:%M:%S,%f'): the time of day alone, to the microsecond.
FormatTime(t) ==
    [hour |-> (t.s % SecondsPerDay) \div SecondsPerHour,
     minute |-> (t.s % SecondsPerHour) \div SecondsPerMinute,
     second |-> t.s % SecondsPerMinute,
     microsecond |-> t.us]

kw_SleepStage == <<"S","l","e","e","p"," ","s","t","a","g","e">>
kw_SleepStageSp == <<"S","l","e","e","p"," ","s","t","a","g","e"," ">>
kw_arousal == <<"a","r","o","u","s","a","l">>
kw_Apnea == <<"A","p","n","e","a">>
kw_Hyp == <<"H","y","p">>
kw_Desat == <<"D","e","s","a","t">>
txt_R == <<"R">>
txt_REM == <<"R","E","M">>

\* The chain with the arousal test on the label as written (no lower()).
CategoryCaseSensitive(event_text) ==
    IF Contains(event_text, kw_SleepStage) THEN "SleepStage"
    ELSE IF Contains(event_text, kw_arousal) THEN "Arousal"
    ELSE IF \E kw \in {kw_Apnea, kw_Hyp, kw_Desat} : Contains(event_text, kw)
         THEN "FlowEvent"
    ELSE "Discard"

\* The if / elif chain of the categorisation loop.
Category(event_text) ==
    IF Contains(event_text, kw_SleepStage) THEN "SleepStage"
    ELSE IF Contains(Lower(event_text), kw_arousal) THEN "Arousal"
    ELSE IF \E kw \in {kw_Apnea, kw_Hyp, kw_Desat} : Contains(event_text, kw)
         THEN "FlowEvent"
    ELSE "Discard"

\* event_data of one annotation.
EventData(start, a) ==
    LET onset_dt_full == Plus(start, a.onset_sec)
        end_dt_full == Plus(onset_dt_full, a.duration_sec)
    IN  [onset_dt |-> DropMicroseconds(onset_dt_full),
         onset_dt_full |-> onset_dt_full,
         end_dt |-> DropMicroseconds(end_dt_full),
         end_dt_full |-> end_dt_full,
         event_text |-> a.event_text]

\* The effective start taken from the sleep stage with the smallest onset.
EffectiveStartEarliest(stages, start) ==
    DropMicroseconds(
        IF stages # <<>>
        THEN LET n == CHOOSE n \in DOMAIN stages : \A m \in DOMAIN stages :
                        \/ stages[n].onset_dt.s < stages[m].onset_dt.s
                        \/ /\ stages[n].onset_dt.s = stages[m].onset_dt.s
                           /\ n <= m
             IN  stages[n].onset_dt
        ELSE start)

\* "Determine Effective Start Time", microseconds removed.
EffectiveStart(stages, start) ==
    DropMicroseconds(IF stages # <<>> THEN stages[1].onset_dt ELSE start)

\* str.replace(old, "")
RECURSIVE RemoveAll(_, _)
RemoveAll(s, old) ==
    IF Len(s) < Len(old) \/ old = <<>> THEN s
    ELSE IF SubSeq(s, 1, Len(old)) = old
         THEN RemoveAll(SubSeq(s, Len(old) + 1, Len(s)), old)
         ELSE <<s[1]>> \o RemoveAll(Tail(s), old)

\* str.strip()
RECURSIVE Strip(_)
Strip(s) ==
    IF s = <<>> THEN s
    ELSE IF s[1] = " " THEN Strip(Tail(s))
    ELSE IF s[Len(s)] = " " THEN Strip(SubSeq(s, 1, Len(s) - 1))
    ELSE s

\* The stage name without the change of 'R' to 'REM'.
StageNameAsWritten(event_text) == Strip(RemoveAll(event_text, kw_SleepStageSp))

\* The stage name of a Sleep-profile row.
StageName(event_text) ==
    LET stage == Strip(RemoveAll(event_text, kw_SleepStageSp))
    IN  IF stage = txt_R THEN txt_REM ELSE stage

NoStamp == [day |-> -1, hour |-> 0, minute |-> 0, second |-> 0]
HeaderLine(text) == [text |-> text, stamp |-> NoStamp]
StartTimeLine(t) == [text |-> "Start Time: ", stamp |-> FormatDateTime(t)]

NoFile == [exists |-> FALSE, header |-> <<>>, rows |-> <<>>]

\* The pieces of a written line: literal text of the format string, a time
\* of day, a number (its whole part, and its decimals when it has any), and
\* a string put in as it is.
NoTime == [hour |-> -1, minute |-> 0, second |-> 0, microsecond |-> 0]
Lit(text) == [lit |-> text, time |-> NoTime, num |-> <<>>, chars |-> <<>>]
TimePiece(t) == [lit |-> "", time |-> t, num |-> <<>>, chars |-> <<>>]
NumPiece(digits) == [lit |-> "", time |-> NoTime, num |-> digits, chars |-> <<>>]
StrPiece(str) == [lit |-> "", time |-> NoTime, num |-> <<>>, chars |-> str]

\* open(filename, 'a'): what the file holds is kept.
OpenForAppending(old) == old

\* open(filename, 'w'): the file is created, or cut to length 0.
OpenForWriting(old) == [exists |-> TRUE, header |-> <<>>, rows |-> <<>>]

\* f.write(...) of a header and of the event lines, on an open file.
WriteTo(f, content) ==
    [exists |-> TRUE, header |-> f.header \o content.header,
     rows |-> f.rows \o content.rows]

\* int(td.total_seconds()): rounded toward zero.
IntSeconds(d) == IF d.s >= 0 \/ d.us = 0 THEN d.s ELSE d.s + 1

SleepProfileFile(start_dt, events) ==
    [exists |-> TRUE,
     header |-> <<StartTimeLine(start_dt), HeaderLine("Version: 1.0"), HeaderLine("")>>,
     rows |-> [n \in DOMAIN events |->
                 <<TimePiece(FormatTime(events[n].onset_dt_full)), Lit("; "),
                   StrPiece(StageName(events[n].event_text))>>]]

ImpulsFile(signal_id, start_dt, events) ==
    [exists |-> TRUE,
     header |-> <<HeaderLine(signal_id), StartTimeLine(start_dt), HeaderLine("Unit: s"),
                  HeaderLine("Signal Type: Impuls"), HeaderLine("")>>,
     rows |-> [n \in DOMAIN events |->
                 <<TimePiece(FormatTime(events[n].onset_dt_full)), Lit("-"),
                   TimePiece(FormatTime(events[n].end_dt_full)), Lit("; "),
                   NumPiece(<<IntSeconds(Minus(events[n].end_dt_full,
                                               events[n].onset_dt_full))>>),
                   Lit(";"), StrPiece(events[n].event_text)>>]]

\* f = pyedflib.EdfReader(edf_path); getStartdatetime(); readAnnotations():
\* the reads succeed, or one of them raises and the except clause prints.
ReadRecording ==
    /\ x_pc = "read"
    /\ IF recording.readable
       THEN /\ start_datetime' = recording.start
            /\ annotations' = recording.annotations
            /\ x_pc' = "categorize"
       ELSE /\ x_pc' = "failed"
            /\ UNCHANGED <<start_datetime, annotations>>
    /\ ann_i' = 1
    /\ sleep_stages' = <<>>
    /\ arousals' = <<>>
    /\ flow_events' = <<>>
    /\ UNCHANGED <<recording, files, effective_start, runs, first_files>>
    /\ UNCHANGED notExtract

\* One iteration of `for i in range(annotations[0].size)`.
CategorizeOne ==
    /\ x_pc = "categorize"
    /\ ann_i <= Len(annotations)
    /\ LET event_data == EventData(start_datetime, annotations[ann_i])
           kind == Category(event_data.event_text)
       IN  /\ sleep_stages' = IF kind = "SleepStage"
                              THEN Append(sleep_stages, event_data) ELSE sleep_stages
           /\ arousals' = IF kind = "Arousal"
                          THEN Append(arousals, event_data) ELSE arousals
           /\ flow_events' = IF kind = "FlowEvent"
                             THEN Append(flow_events, event_data) ELSE flow_events
    /\ ann_i' = ann_i + 1
    /\ UNCHANGED <<recording, files, x_pc, start_datetime, annotations, effective_start,
                   runs, first_files>>
    /\ UNCHANGED notExtract

\* f.close() and the effective start time.
DetermineStart ==
    /\ x_pc = "categorize"
    /\ ann_i > Len(annotations)
    /\ effective_start' = EffectiveStart(sleep_stages, start_datetime)
    /\ x_pc' = "write_sleep_profile"
    /\ UNCHANGED <<recording, files, start_datetime, annotations, ann_i, sleep_stages,
                   arousals, flow_events, runs, first_files>>
    /\ UNCHANGED notExtract

write_sleep_profile ==
    /\ x_pc = "write_sleep_profile"
    /\ files' = [files EXCEPT ![SleepProfileTail] =
                    WriteTo(OpenForWriting(@),
                            SleepProfileFile(effective_start, sleep_stages))]
    /\ x_pc' = "write_arousals"
    /\ UNCHANGED <<recording, start_datetime, annotations, ann_i, sleep_stages,
                   arousals, flow_events, effective_start, runs, first_files>>
    /\ UNCHANGED notExtract

write_arousals ==
    /\ x_pc = "write_arousals"
    /\ files' = [files EXCEPT ![ArousalsTail] =
                    WriteTo(OpenForWriting(@),
                            ImpulsFile("Signal ID: Arousals", effective_start, arousals))]
    /\ x_pc' = "write_flow_events"
    /\ UNCHANGED <<recording, start_datetime, annotations, ann_i, sleep_stages,
                   arousals, flow_events, effective_start, runs, first_files>>
    /\ UNCHANGED notExtract

write_flow_events ==
    /\ x_pc = "write_flow_events"
    /\ files' = [files EXCEPT ![FlowEventsTail] =
                    WriteTo(OpenForWriting(@),
                            ImpulsFile("Signal ID: FlowEvents", effective_start,
                                       flow_events))]
    /\ x_pc' = "done"
    /\ UNCHANGED <<recording, start_datetime, annotations, ann_i, sleep_stages,
                   arousals, flow_events, effective_start, runs, first_files>>
    /\ UNCHANGED notExtract

\* python convert_edf_annotations.py <edf> once more, on the same recording
\* and on the files the run before it left.
RunAgain ==
    /\ x_pc \in {"done", "failed"}
    /\ runs < MaxRuns
    /\ runs' = runs + 1
    /\ first_files' = IF runs = 1 THEN files ELSE first_files
    /\ x_pc' = "read"
    /\ UNCHANGED <<recording, files, start_datetime, annotations, ann_i, sleep_stages,
                   arousals, flow_events, effective_start>>
    /\ UNCHANGED notExtract

ExtractNext ==
    \/ ReadRecording
    \/ CategorizeOne
    \/ DetermineStart
    \/ write_sleep_profile
    \/ write_arousals
    \/ write_flow_events
    \/ RunAgain

\* Header start times: 22:00:00 sharp, and half a second before midnight.
StartTimes == {Time(22 * SecondsPerHour, 0), Time(SecondsPerDay - 1, 500000)}
\* Onset and duration of an annotation: at the start with no duration, or
\* 30.75 s in and 12.5 s long.
Timings == {<<Time(0, 0), Time(0, 0)>>, <<Time(30, 750000), Time(12, 500000)>>}
lbl_StageW == <<"S","l","e","e","p"," ","s","t","a","g","e"," ","W">>
lbl_StageR == <<"S","l","e","e","p"," ","s","t","a","g","e"," ","R">>
lbl_EEGArousal == <<"E","E","G"," ","a","r","o","u","s","a","l">>
lbl_Apnea == <<"O","b","s","t","r","u","c","t","i","v","e"," ","A","p","n","e","a">>
Labels ==
    { lbl_StageW, lbl_StageR, lbl_EEGArousal,
      <<"A","r","o","u","s","a","l"," ","H","y","p","o","p","n","e","a">>,
      lbl_Apnea,
      <<"L","i","g","h","t","s"," ","o","f","f">>,
      <<"S","l","e","e","p"," ","s","t","a","g","e"," ","a","r","o","u","s","a","l">> }

\* The annotations of the lists: every label at the start with no duration,
\* and one label of each kind with a fractional onset and duration.
Annotation ==
    {[onset_sec |-> tm[1], duration_sec |-> tm[2], event_text |-> label] :
        tm \in Timings, label \in Labels}
    \ {a \in [onset_sec : {Time(30, 750000)}, duration_sec : {Time(12, 500000)},
               event_text : Labels] :
          a.event_text \notin {lbl_StageW, lbl_EEGArousal, lbl_Apnea}}

\* The annotation lists of n entries.
RECURSIVE AnnotationLists(_)
AnnotationLists(n) ==
    IF n = 0 THEN {<<>>}
    ELSE {Append(l, a) : l \in AnnotationLists(n - 1), a \in Annotation}

\* The recording of spec.md section 8: header start 22:00:00, annotations
\* (0.0, 0.0, "Sleep stage W"), (30.0, 0.0, "Sleep stage R"),
\* (35.0, 12.0, "EEG arousal").
ExampleRecording ==
    [start |-> Time(22 * SecondsPerHour, 0),
     annotations |->
        << [onset_sec |-> Time(0, 0), duration_sec |-> Time(0, 0),
            event_text |-> lbl_StageW],
           [onset_sec |-> Time(30, 0), duration_sec |-> Time(0, 0),
            event_text |-> lbl_StageR],
           [onset_sec |-> Time(35, 0), duration_sec |-> Time(12, 0),
            event_text |-> lbl_EEGArousal] >>,
     readable |-> TRUE]

\* A recording whose annotation block cannot be read.
CorruptRecording ==
    [start |-> Time(22 * SecondsPerHour, 0), annotations |-> <<>>, readable |-> FALSE]

\* A text file left by something else than the extractor.
StaleFile == [exists |-> TRUE, header |-> <<HeaderLine("stale")>>, rows |-> <<>>]

ExtractRegisters ==
    /\ start_datetime = Time(0, 0)
    /\ annotations = <<>>
    /\ ann_i = 0
    /\ sleep_stages = <<>>
    /\ arousals = <<>>
    /\ flow_events = <<>>
    /\ effective_start = Time(0, 0)
    /\ first_files = [t \in TextTails |-> NoFile]

ExtractIdle ==
    /\ files = [t \in TextTails |-> NoFile]
    /\ runs = 0
    /\ ExtractRegisters

ExtractInit ==
    /\ recording \in [start : StartTimes,
                      annotations : UNION {AnnotationLists(n) : n \in 0..MaxAnn},
                      readable : {TRUE}]
                        \cup {ExampleRecording, CorruptRecording}
    /\ x_pc = "read"
    /\ \E old \in {NoFile, StaleFile} : files = [t \in TextTails |-> old]
    /\ runs = 1
    /\ ExtractRegisters

\* ------------------------------------------ spreadsheet-annotation extractor
Digits == <<"0","1","2","3","4","5","6","7","8","9">>
IsDigit(c) == \E n \in DOMAIN Digits : Digits[n] = c
DigitValue(c) == (CHOOSE n \in DOMAIN Digits : Digits[n] = c) - 1

\* The place of the first occurrence of needle in s, 0 when there is none.
IndexOf(s, needle) ==
    IF Contains(s, needle)
    THEN CHOOSE n \in 1..Len(s) :
            /\ SubSeq(s, n, n + Len(needle) - 1) = needle
            /\ \A m \in 1..(n - 1) : SubSeq(s, m, m + Len(needle) - 1) # needle
    ELSE 0

\* str.split(sep)
RECURSIVE Split(_, _)
Split(s, sep) ==
    LET n == IndexOf(s, sep)
    IN  IF n = 0 THEN <<s>>
        ELSE <<SubSeq(s, 1, n - 1)>> \o Split(SubSeq(s, n + Len(sep), Len(s)), sep)

\* int(text) of an unsigned decimal; -1 stands for ValueError.
RECURSIVE ParseInt(_)
ParseInt(s) ==
    IF s = <<>> \/ \E n \in DOMAIN s : ~IsDigit(s[n]) THEN -1
    ELSE IF Len(s) = 1 THEN DigitValue(s[1])
    ELSE 10 * ParseInt(SubSeq(s, 1, Len(s) - 1)) + DigitValue(s[Len(s)])

\* The microseconds a run of decimals stands for: '6' is 600000.
Decimals(s) ==
    IF s = <<>> THEN 0
    ELSE IF Len(s) = 1 THEN ParseInt(s) * 100000
    ELSE IF Len(s) = 2 THEN ParseInt(s) * 10000
    ELSE -1

\* float(text) as a timedelta; [s |-> -1] stands for ValueError.  Texts have
\* at most two decimals, which timedelta and '.2f' keep as they are.
ParseFloat(s) ==
    LET parts == Split(s, <<".">>)
        whole == ParseInt(parts[1])
        frac == IF Len(parts) = 2 THEN Decimals(parts[2]) ELSE 0
    IN  IF Len(parts) > 2 \/ whole < 0 \/ frac < 0 THEN Time(-1, 0) ELSE Time(whole, frac)

\* Series.str.contains(pattern, case=False, na=False) for a pattern of
\* alternatives without special characters.
ContainsNoCase(s, alternatives) ==
    \E alt \in alternatives : Contains(Lower(s), Lower(alt))

pat_Stage == <<"S","t","a","g","e"," ","-">>
pat_Arousal == <<"A","r","o","u","s","a","l"," ","-">>
pat_Respiratory == <<"R","e","s","p","i","r","a","t","o","r","y"," ","E","v","e","n","t">>
pat_Desaturation == <<"D","e","s","a","t","u","r","a","t","i","o","n">>
txt_Dur == <<"D","u","r",":">>
txt_Dash == <<" ","-"," ">>
txt_NoStage == <<"N","o"," ","S","t","a","g","e">>
txt_NoStage1 == <<"N","o","S","t","a","g","e">>

\* The try block of parse_timestamp: the time of day a cell 'HH:MM:SS.ff'
\* names, or that an exception is raised (a part is missing, int() of a part
\* fails, datetime() is given a value out of range).
TimeOfDay(timestamp_str) ==
    LET parts == Split(timestamp_str, <<":">>)
        sec_parts == Split(parts[3], <<".">>)
        hour == ParseInt(parts[1])
        minute == ParseInt(parts[2])
        second == ParseInt(sec_parts[1])
        centisecond == IF Len(sec_parts) > 1
                       THEN ParseInt(SubSeq(sec_parts[2], 1, 2)) ELSE 0
        raises == \/ Len(parts) < 3
                  \/ hour < 0 \/ minute < 0 \/ second < 0 \/ centisecond < 0
                  \/ hour > 23 \/ minute > 59 \/ second > 59
    IN  IF raises THEN [raises |-> TRUE, s |-> 0, us |-> 0]
        ELSE [raises |-> FALSE,
              s |-> hour * SecondsPerHour + minute * SecondsPerMinute + second,
              us |-> centisecond * 10000]

\* The cell that does not parse put at midnight of the header's date.
parse_timestamp_or_midnight(timestamp_str, start) ==
    LET t == TimeOfDay(timestamp_str)
    IN  Time((start.s \div SecondsPerDay) * SecondsPerDay + t.s, t.us)

\* parse_timestamp(timestamp_str, edf_start_time): the time of day on the
\* date of the start time, or the start time when the cell does not parse.
parse_timestamp(timestamp_str, start) ==
    LET t == TimeOfDay(timestamp_str)
    IN  IF t.raises THEN start
        ELSE Time((start.s \div SecondsPerDay) * SecondsPerDay + t.s, t.us)

\* print(f"Warning: Failed to parse timestamp ..."), once for each row of
\* `rows` whose cell does not parse.
Warnings(rows) ==
    LET raises(row) == TimeOfDay(row.time).raises
        warned == SelectSeq(rows, raises)
    IN  [n \in DOMAIN warned |-> warned[n].time]

\* duration_sec: the number between 'Dur:' and 'sec.', 0.0 without 'Dur:'
\* or when the text between them is no number.
DurationSec(event_text) ==
    IF ~Contains(event_text, txt_Dur) THEN Time(0, 0)
    ELSE LET dur_part == Strip(Split(Split(event_text, txt_Dur)[2], <<"s","e","c",".">>)[1])
             value == ParseFloat(dur_part)
         IN  IF value.s < 0 THEN Time(0, 0) ELSE value

\* The rows of the grid a filter keeps, in grid order.
SelectRows(grid, alternatives) ==
    LET hit(row) == ContainsNoCase(row.text, alternatives)
    IN  SelectSeq(grid, hit)

\* The indices of the rows a filter keeps.
SelectedRows(grid, alternatives) ==
    {n \in DOMAIN grid : ContainsNoCase(grid[n].text, alternatives)}

StageEntry(row, start) ==
    [onset_time |-> parse_timestamp(row.time, start),
     stage |-> Strip(RemoveAll(row.text, pat_Stage))]

\* The subtype taken from the last segment as soon as there are two.
ArousalTypeOfTwoSegments(event_text) ==
    LET parts == Split(event_text, txt_Dash)
    IN  IF Contains(event_text, txt_Dash) /\ Len(parts) >= 2
        THEN Strip(parts[Len(parts)]) ELSE <<"A","r","o","u","s","a","l">>

ArousalType(event_text) ==
    LET parts == Split(event_text, txt_Dash)
    IN  IF Contains(event_text, txt_Dash) /\ Len(parts) >= 3
        THEN Strip(parts[Len(parts)]) ELSE <<"A","r","o","u","s","a","l">>

ArousalEntry(row, start) ==
    LET onset_time == parse_timestamp(row.time, start)
        duration_sec == DurationSec(row.text)
    IN  [onset_time |-> onset_time, end_time |-> Plus(onset_time, duration_sec),
         duration |-> duration_sec, type |-> ArousalType(row.text)]

FlowType(event_text) ==
    IF Contains(event_text, kw_Hyp) THEN <<"H","y","p","o","p","n","e","a">>
    ELSE IF Contains(event_text, kw_Apnea) THEN kw_Apnea
    ELSE IF Contains(event_text, pat_Desaturation) \/ Contains(event_text, kw_Desat)
         THEN pat_Desaturation
    ELSE <<"F","l","o","w"," ","E","v","e","n","t">>

FlowEntry(row, start) ==
    LET onset_time == parse_timestamp(row.time, start)
        duration_sec == DurationSec(row.text)
    IN  [onset_time |-> onset_time, end_time |-> Plus(onset_time, duration_sec),
         duration |-> duration_sec, type |-> FlowType(row.text)]

\* The stage name as written, <<>> for an entry that is skipped.
SheetStageName(stage) ==
    IF stage \in {txt_NoStage, txt_NoStage1} THEN <<>>
    ELSE IF stage \in {txt_R, txt_REM} THEN txt_REM
    ELSE stage

SheetSleepProfileFile(start_time, stages) ==
    LET kept(entry) == entry.stage \notin {txt_NoStage, txt_NoStage1}
        written == SelectSeq(stages, kept)
    IN  [exists |-> TRUE,
         header |-> <<StartTimeLine(start_time), HeaderLine("Version: 1.0"),
                      HeaderLine("")>>,
         rows |-> [n \in DOMAIN written |->
                     <<TimePiece(FormatTime(written[n].onset_time)), Lit("; "),
                       StrPiece(SheetStageName(written[n].stage))>>]]

\* '{duration:.2f}': the whole seconds and the hundredths.
TwoDecimals(d) == <<d.s, d.us \div 10000>>

SheetImpulsFile(signal_id, start_time, events) ==
    [exists |-> TRUE,
     header |-> <<HeaderLine(signal_id), StartTimeLine(start_time), HeaderLine("Unit: s"),
                  HeaderLine("Signal Type: Impuls"), HeaderLine("")>>,
     rows |-> [n \in DOMAIN events |->
                 <<TimePiece(FormatTime(events[n].onset_time)), Lit("-"),
                   TimePiece(FormatTime(events[n].end_time)), Lit("; "),
                   NumPiece(TwoDecimals(events[n].duration)),
                   Lit("; "), StrPiece(events[n].type)>>]]

\* read_edf_start_time and pd.read_excel: the header and the grid are read, or
\* one of the reads raises and the result is {'success': False, ...}.
ReadSheet ==
    /\ xl_pc = "read"
    /\ xl_pc' = IF df.readable THEN "extract_sleep_stages" ELSE "failed"
    /\ UNCHANGED <<df, edf_start_time, xl_sleep_stages, xl_arousals, xl_flow_events,
                   xl_files, xl_warnings>>
    /\ UNCHANGED notSheet

extract_sleep_stages ==
    /\ xl_pc = "extract_sleep_stages"
    /\ LET stage_rows == SelectRows(df.rows, {pat_Stage})
       IN  xl_sleep_stages' = [n \in DOMAIN stage_rows |->
                                 StageEntry(stage_rows[n], edf_start_time)]
    /\ xl_warnings' = xl_warnings \o Warnings(SelectRows(df.rows, {pat_Stage}))
    /\ xl_pc' = "extract_arousals"
    /\ UNCHANGED <<df, edf_start_time, xl_arousals, xl_flow_events, xl_files>>
    /\ UNCHANGED notSheet

extract_arousals ==
    /\ xl_pc = "extract_arousals"
    /\ LET arousal_rows == SelectRows(df.rows, {pat_Arousal})
       IN  xl_arousals' = [n \in DOMAIN arousal_rows |->
                             ArousalEntry(arousal_rows[n], edf_start_time)]
    /\ xl_warnings' = xl_warnings \o Warnings(SelectRows(df.rows, {pat_Arousal}))
    /\ xl_pc' = "extract_flow_events"
    /\ UNCHANGED <<df, edf_start_time, xl_sleep_stages, xl_flow_events, xl_files>>
    /\ UNCHANGED notSheet

extract_flow_events ==
    /\ xl_pc = "extract_flow_events"
    /\ LET flow_rows == SelectRows(df.rows, {pat_Respiratory, pat_Desaturation})
       IN  xl_flow_events' = [n \in DOMAIN flow_rows |->
                                FlowEntry(flow_rows[n], edf_start_time)]
    /\ xl_warnings' = xl_warnings
                        \o Warnings(SelectRows(df.rows, {pat_Respiratory, pat_Desaturation}))
    /\ xl_pc' = "write_sleep_profile"
    /\ UNCHANGED <<df, edf_start_time, xl_sleep_stages, xl_arousals, xl_files>>
    /\ UNCHANGED notSheet

xl_write_sleep_profile ==
    /\ xl_pc = "write_sleep_profile"
    /\ xl_files' = [xl_files EXCEPT ![SleepProfileTail] =
                      WriteTo(OpenForWriting(@),
                              SheetSleepProfileFile(edf_start_time, xl_sleep_stages))]
    /\ xl_pc' = "write_arousals"
    /\ UNCHANGED <<df, edf_start_time, xl_sleep_stages, xl_arousals, xl_flow_events,
                   xl_warnings>>
    /\ UNCHANGED notSheet

xl_write_arousals ==
    /\ xl_pc = "write_arousals"
    /\ xl_files' = [xl_files EXCEPT ![ArousalsTail] =
                      WriteTo(OpenForWriting(@),
                              SheetImpulsFile("Signal ID: Arousals", edf_start_time,
                                              xl_arousals))]
    /\ xl_pc' = "write_flow_events"
    /\ UNCHANGED <<df, edf_start_time, xl_sleep_stages, xl_arousals, xl_flow_events,
                   xl_warnings>>
    /\ UNCHANGED notSheet

xl_write_flow_events ==
    /\ xl_pc = "write_flow_events"
    /\ xl_files' = [xl_files EXCEPT ![FlowEventsTail] =
                      WriteTo(OpenForWriting(@),
                              SheetImpulsFile("Signal ID: Flow Events", edf_start_time,
                                              xl_flow_events))]
    /\ xl_pc' = "done"
    /\ UNCHANGED <<df, edf_start_time, xl_sleep_stages, xl_arousals, xl_flow_events,
                   xl_warnings>>
    /\ UNCHANGED notSheet

SheetNext ==
    \/ ReadSheet
    \/ extract_sleep_stages
    \/ extract_arousals
    \/ extract_flow_events
    \/ xl_write_sleep_profile
    \/ xl_write_arousals
    \/ xl_write_flow_events

\* Cells of column 2 and of column 3.
Descriptions ==
    { <<"S","t","a","g","e"," ","-"," ","W">>,
      <<"S","t","a","g","e"," ","-"," ","R">>,
      <<"s","t","a","g","e"," ","-"," ","R">>,
      <<"S","t","a","g","e"," ","-"," ","N","o"," ","S","t","a","g","e">>,
      <<"A","r","o","u","s","a","l"," ","-"," ","D","u","r",":"," ","1","9",".","6"," ","s","e","c","."," ","-"," ","R","E","R","A">>,
      <<"A","r","o","u","s","a","l"," ","-"," ","D","u","r",":"," ","x"," ","s","e","c",".">>,
      <<"A","r","o","u","s","a","l"," ","-"," ","R","E","R","A">>,
      <<"A","r","o","u","s","a","l"," ","-"," ","D","u","r",":"," ","8",".","1"," ","s","e","c","."," ","-"," ","R","e","s","p","i","r","a","t","o","r","y"," ","E","v","e","n","t">>,
      <<"R","e","s","p","i","r","a","t","o","r","y"," ","E","v","e","n","t"," ","-"," ","D","u","r",":"," ","1","2",".","5"," ","s","e","c","."," ","-"," ","H","y","p","o","p","n","e","a">>,
      <<"D","e","s","a","t","u","r","a","t","i","o","n"," ","-"," ","D","u","r",":"," ","2","0",".","0"," ","s","e","c",".">>,
      <<"L","i","g","h","t","s"," ","O","f","f">> }

\* The rows of a grid: every description in the evening, and one after
\* midnight and one with a cell that is no time.
SheetRows ==
    {[time |-> <<"2","2",":","0","0",":","3","0",".","5","0">>, text |-> d] : d \in Descriptions}
        \cup {[time |-> <<"0","0",":","1","0",":","0","0",".","0","0">>, text |-> <<"S","t","a","g","e"," ","-"," ","W">>],
              [time |-> <<"n","/","a">>, text |-> <<"A","r","o","u","s","a","l"," ","-"," ","D","u","r",":"," ","1","9",".","6"," ","s","e","c","."," ","-"," ","R","E","R","A">>]}

RECURSIVE Grids(_)
Grids(n) ==
    IF n = 0 THEN {<<>>}
    ELSE {Append(g, row) : g \in Grids(n - 1), row \in SheetRows}

NoGrid == [readable |-> FALSE, rows |-> <<>>]

SheetRegisters ==
    /\ xl_sleep_stages = <<>>
    /\ xl_arousals = <<>>
    /\ xl_flow_events = <<>>
    /\ xl_files = [t \in TextTails |-> NoFile]
    /\ xl_warnings = <<>>

SheetIdle ==
    /\ df = NoGrid
    /\ edf_start_time = Time(0, 0)
    /\ xl_pc = "idle"
    /\ SheetRegisters

SheetInit ==
    /\ df \in [readable : {TRUE}, rows : UNION {Grids(n) : n \in 0..MaxRows}]
                \cup {NoGrid}
    /\ edf_start_time = Time(22 * SecondsPerHour, 0)
    /\ xl_pc = "read"
    /\ SheetRegisters

\* ------------------------------------------------- the classifier, by step
EmgKeywords == {<<"E","M","G">>, <<"C","H","I","N">>, <<"L","E","G">>, <<"C","h","i","n">>, <<"L","a","t">>, <<"R","a","t">>}

\* any(keyword in label for keyword in [...])
IsEmgLabel(label) == \E kw \in EmgKeywords : Contains(label, kw)

NoCount == -1

NoVerdict ==
    [type |-> "Unknown", has_annotations |-> FALSE, pyedflib_compatible |-> FALSE,
     excel_file |-> None, num_signals |-> NoCount, emg_channels |-> <<>>,
     error |-> None]

\* if not edf_path.exists(): return {...}
DetectExists ==
    /\ d_pc = "exists"
    /\ IF probe.exists
       THEN /\ d_result' = NoVerdict
            /\ d_pc' = "open"
       ELSE /\ d_result' = [NoVerdict EXCEPT !.type = "Invalid",
                                            !.error = Str(<<"File not found: ">>)]
            /\ d_pc' = "returned"
    /\ UNCHANGED <<probe, handles, d_signal, source>>
    /\ UNCHANGED notDetect

\* f = pyedflib.EdfReader(str(edf_path)): the reader holds the file open, or
\* the call raises.
DetectOpen ==
    /\ d_pc = "open"
    /\ IF probe.opens
       THEN /\ handles' = handles \cup {"reader"}
            /\ d_result' = [d_result EXCEPT !.pyedflib_compatible = TRUE,
                                            !.num_signals = Len(probe.labels)]
            /\ d_pc' = IF probe.fail_at = "filetype" THEN "except" ELSE "filetype"
       ELSE /\ d_pc' = "except"
            /\ UNCHANGED <<handles, d_result>>
    /\ UNCHANGED <<probe, d_signal, source>>
    /\ UNCHANGED notDetect

\* filetype = f.filetype ... result['has_annotations'] = num_annotations > 0
DetectVariant ==
    /\ d_pc = "filetype"
    /\ IF probe.fail_at = "annotations"
       THEN /\ d_result' = [d_result EXCEPT
                               !.type = IF probe.filetype = 1 THEN "EDF+C"
                                        ELSE IF probe.filetype = 2 THEN "EDF+D"
                                        ELSE "Standard"]
            /\ d_pc' = "except"
       ELSE /\ d_result' = [d_result EXCEPT
                               !.type = IF probe.filetype = 1 THEN "EDF+C"
                                        ELSE IF probe.filetype = 2 THEN "EDF+D"
                                        ELSE "Standard",
                               !.has_annotations = probe.annotations_in_file > 0]
            /\ d_pc' = "labels"
    /\ d_signal' = 0
    /\ UNCHANGED <<probe, handles, source>>
    /\ UNCHANGED notDetect

\* for i in range(f.signals_in_file): label = f.getLabel(i); the labels found
\* are collected in a local list.
DetectLabel ==
    /\ d_pc = "labels"
    /\ d_signal < Len(probe.labels)
    /\ IF probe.fail_at = "label"
       THEN /\ d_pc' = "except"
            /\ UNCHANGED <<d_signal, d_result>>
       ELSE /\ d_signal' = d_signal + 1
            /\ d_result' = d_result
            /\ d_pc' = d_pc
    /\ UNCHANGED <<probe, handles, source>>
    /\ UNCHANGED notDetect

\* The labels at indices 0..n-1 that hold a keyword, as (index, label) pairs.
EmgChannels(labels, n) ==
    LET hit(k) == k <= Len(labels) /\ IsEmgLabel(Strip(labels[k]))
        idx == SelectSeq([k \in 1..n |-> k], hit)
    IN  [m \in DOMAIN idx |-> <<idx[m] - 1, Strip(labels[idx[m]])>>]

\* result['emg_channels'] = emg_channels; f.close()
DetectClose ==
    /\ d_pc = "labels"
    /\ d_signal = Len(probe.labels)
    /\ d_result' = [d_result EXCEPT
                       !.emg_channels = EmgChannels(probe.labels, Len(probe.labels))]
    /\ handles' = handles \ {"reader"}
    /\ d_pc' = "excel"
    /\ UNCHANGED <<probe, d_signal, source>>
    /\ UNCHANGED notDetect

\* The reader left open with the finaliser of the interpreter run on it when
\* its last reference goes.
ReleasedByFinalizer(open) == open \ {"reader"}

\* No statement of the except branch closes the reader.
LeftOpen(open) == open

\* except Exception as e: the verdict falls back to Standard, and the file is
\* opened as bytes.  The name f is bound anew: a reader it named is left to
\* the interpreter, which may finalise it now or later.
DetectExcept ==
    /\ d_pc = "except"
    /\ \E after \in {LeftOpen(handles), ReleasedByFinalizer(handles)} :
         IF probe.header_readable
         THEN /\ handles' = after \cup {"bytes"}
              /\ d_result' = [d_result EXCEPT !.pyedflib_compatible = FALSE,
                                              !.type = "Standard"]
              /\ d_pc' = "header"
         ELSE /\ handles' = after
              /\ d_result' = [d_result EXCEPT
                                 !.pyedflib_compatible = FALSE,
                                 !.type = "Standard",
                                 !.error = Str(<<"pyedflib error: ", ", header read error: ">>)]
              /\ d_pc' = "excel"
    /\ UNCHANGED <<probe, d_signal, source>>
    /\ UNCHANGED notDetect

\* header[252:256].decode('ascii', errors='ignore').strip(), isdigit(), int()
HeaderCount(count_field) ==
    LET num_signals_str == Strip(count_field)
    IN  IF ParseInt(num_signals_str) >= 0 THEN ParseInt(num_signals_str) ELSE NoCount

\* The body of `with open(edf_path, 'rb') as f`, and the end of the block.
DetectHeader ==
    /\ d_pc = "header"
    /\ LET n == HeaderCount(probe.count_field)
           num_signals == IF n = NoCount THEN d_result.num_signals ELSE n
       IN  d_result' = [d_result EXCEPT
                           !.num_signals = num_signals,
                           !.emg_channels = IF num_signals > 0
                                            THEN EmgChannels(probe.labels, num_signals)
                                            ELSE @]
    /\ handles' = handles \ {"bytes"}
    /\ d_pc' = "excel"
    /\ UNCHANGED <<probe, d_signal, source>>
    /\ UNCHANGED notDetect

\* The probing with '.XLSX' tried before '.xlsx'.
DetectExcelUpperFirst ==
    /\ d_pc = "excel"
    /\ d_result' = [d_result EXCEPT
                       !.excel_file = IF probe.XLSX THEN Str(ext_XLSX)
                                      ELSE IF probe.xlsx THEN Str(ext_xlsx) ELSE None]
    /\ d_pc' = "returned"
    /\ UNCHANGED <<probe, handles, d_signal, source>>
    /\ UNCHANGED notDetect

\* for excel_path in excel_patterns: ... return result
DetectExcel ==
    /\ d_pc = "excel"
    /\ d_result' = [d_result EXCEPT
                       !.excel_file = IF probe.xlsx THEN Str(ext_xlsx)
                                      ELSE IF probe.XLSX THEN Str(ext_XLSX) ELSE None]
    /\ d_pc' = "returned"
    /\ UNCHANGED <<probe, handles, d_signal, source>>
    /\ UNCHANGED notDetect

\* raw.ch_names of mne.io.read_raw_edf: the labels without padding, a label
\* that occurs more than once given a running number.
MneChannelNames(labels) ==
    [k \in DOMAIN labels |->
        LET name == Strip(labels[k])
            same == {m \in DOMAIN labels : Strip(labels[m]) = name}
            before == Cardinality({m \in same : m < k})
        IN  IF Cardinality(same) > 1
            THEN name \o <<"-", Digits[before + 1]>>
            ELSE name]

\* The file convert_standard_to_edfplus writes for a recording: EDF+C, one
\* signal per channel name, the channel name as its label.
NormalizedFile(input) ==
    [exists |-> TRUE, opens |-> TRUE, fail_at |-> "none", filetype |-> 1,
     annotations_in_file |-> 0, header_readable |-> TRUE,
     count_field |-> <<Digits[Len(input.labels) + 1]>>,
     labels |-> MneChannelNames(input.labels),
     xlsx |-> FALSE, XLSX |-> FALSE]

NoSource == [none |-> TRUE, probe |-> <<>>, result |-> NoVerdict]

\* convert_standard_to_edfplus on the recording just classified, which
\* mne.io.read_raw_edf reads when the header is whole, and the classifier
\* started on the file it wrote.
Normalize ==
    /\ d_pc = "returned"
    /\ source.none
    /\ d_result.type = "Standard"
    /\ handles = {}
    /\ probe.header_readable
    /\ HeaderCount(probe.count_field) = Len(probe.labels)
    /\ source' = [none |-> FALSE, probe |-> probe, result |-> d_result]
    /\ probe' = NormalizedFile(probe)
    /\ d_pc' = "exists"
    /\ UNCHANGED <<handles, d_result, d_signal>>
    /\ UNCHANGED notDetect

DetectNext ==
    \/ DetectExists
    \/ DetectOpen
    \/ DetectVariant
    \/ DetectLabel
    \/ DetectClose
    \/ DetectExcept
    \/ DetectHeader
    \/ DetectExcel
    \/ Normalize

\* The 16 bytes of a label, and the 4 bytes of the signal count.
HeaderLabels == {<<"E","M","G"," "," "," "," "," "," "," "," "," "," "," "," "," ">>, <<"C","h","i","n"," "," "," "," "," "," "," "," "," "," "," "," ">>, <<"E","E","G"," ","C","3"," "," "," "," "," "," "," "," "," "," ">>}

RECURSIVE LabelTables(_)
LabelTables(n) ==
    IF n = 0 THEN {<<>>}
    ELSE {Append(t, label) : t \in LabelTables(n - 1), label \in HeaderLabels}

\* The signal count of a header with n labels, as its four bytes.
CountField(n) == <<Digits[n + 1], " ", " ", " ">>

\* The files the classifier meets: a file the reader opens, of each variant,
\* with or without annotations; a file on which an operation fails after the
\* reader opened it; a file the reader refuses, with a header that states
\* its signal count, or one that states no number, or one that cannot be
\* read at all; a missing file.
Probes ==
    LET base(t) == [exists |-> TRUE, opens |-> TRUE, fail_at |-> "none", filetype |-> 1,
                    annotations_in_file |-> 1, header_readable |-> TRUE,
                    count_field |-> CountField(Len(t)), labels |-> t,
                    xlsx |-> FALSE, XLSX |-> FALSE]
    IN  UNION {
          {base(t)} \cup
          {[base(t) EXCEPT !.filetype = ft, !.annotations_in_file = 0] : ft \in {0, 1, 2}} \cup
          {[base(t) EXCEPT !.fail_at = at] : at \in {"filetype", "annotations", "label"}} \cup
          {[base(t) EXCEPT !.fail_at = "label", !.header_readable = FALSE]} \cup
          {[base(t) EXCEPT !.opens = FALSE, !.filetype = 0, !.xlsx = x, !.XLSX = y] :
              x \in BOOLEAN, y \in BOOLEAN} \cup
          {[base(t) EXCEPT !.opens = FALSE, !.filetype = 0,
                           !.count_field = <<" ", " ", " ", " ">>],
           [base(t) EXCEPT !.opens = FALSE, !.filetype = 0, !.header_readable = FALSE],
           [base(t) EXCEPT !.exists = FALSE]}
          : t \in UNION {LabelTables(n) : n \in 0..MaxChannels} }

NoProbe ==
    [exists |-> FALSE, opens |-> FALSE, fail_at |-> "none", filetype |-> 0,
     annotations_in_file |-> 0, header_readable |-> FALSE,
     count_field |-> <<>>, labels |-> <<>>, xlsx |-> FALSE, XLSX |-> FALSE]

DetectRegisters ==
    /\ handles = {}
    /\ d_result = NoVerdict
    /\ d_signal = 0
    /\ source = NoSource

DetectIdle ==
    /\ probe = NoProbe
    /\ d_pc = "idle"
    /\ DetectRegisters

DetectInit ==
    /\ probe \in Probes
    /\ d_pc = "exists"
    /\ DetectRegisters

\* ------------------------------------- convert_standard_to_edfplus, signals
\* Sample values and physical ranges are fixed-point numbers counted in
\* millionths: the sample 0.0003 is 300, the range bound 500.0 is 500000000.
\* The sampling frequency is counted in half hertz.

\* data[i] * 1e6: the factor from volt to microvolt.
VoltToMicrovolt == 1000000

\* min_range = 500.0
min_range == 500 * 1000000

\* any(keyword in ch_name for keyword in ['EMG', 'EEG', 'EOG', 'Chin', 'Lat', 'Rat'])
IsBiosignal(ch_name) ==
    \E keyword \in {<<"E","M","G">>, <<"E","E","G">>, <<"E","O","G">>, <<"C","h","i","n">>, <<"L","a","t">>, <<"R","a","t">>} :
       Contains(ch_name, keyword)

Abs(x) == IF x < 0 THEN -x ELSE x
Larger(x, y) == IF x >= y THEN x ELSE y
Smallest(ch_data) ==
    CHOOSE v \in {ch_data[k] : k \in DOMAIN ch_data} : \A k \in DOMAIN ch_data : v <= ch_data[k]
Largest(ch_data) ==
    CHOOSE v \in {ch_data[k] : k \in DOMAIN ch_data} : \A k \in DOMAIN ch_data : v >= ch_data[k]

\* `ch_name in channels_converted` on the list of names.
InList(ch_name, names) == \E k \in DOMAIN names : names[k] = ch_name

\* The channel as step 2 leaves it when nothing is rescaled.
NotRescaled(ch_name, ch_data) == ch_data

\* Step 2, one channel: data[i] * 1e6 for a biosignal channel.
Rescaled(ch_name, ch_data) ==
    IF IsBiosignal(ch_name)
    THEN [k \in DOMAIN ch_data |-> ch_data[k] * VoltToMicrovolt]
    ELSE ch_data

\* Step 2's list of the rescaled channels' names, in channel order.
RECURSIVE ConvertedNames(_)
ConvertedNames(ch_names) ==
    IF ch_names = <<>> THEN <<>>
    ELSE LET rest == ConvertedNames(SubSeq(ch_names, 1, Len(ch_names) - 1))
             last == ch_names[Len(ch_names)]
         IN  IF IsBiosignal(last) THEN Append(rest, last) ELSE rest

\* Step 3, one channel: the header dict.
SignalHeader(ch_name, ch_data, converted, sfreq) ==
    LET abs_max == Larger(Abs(Smallest(ch_data)), Abs(Largest(ch_data)))
        physical_max == abs_max * 2
        widened == InList(ch_name, converted) /\ Abs(physical_max) < min_range
    IN  [label |-> ch_name,
         dimension |-> IF InList(ch_name, converted) THEN <<"u","V">> ELSE <<>>,
         sample_frequency |-> sfreq \div 2,
         physical_min |-> IF widened THEN -min_range ELSE -physical_max,
         physical_max |-> IF widened THEN min_range ELSE physical_max,
         digital_min |-> -32768,
         digital_max |-> 32767]

\* Padding that fills the record with zeros.
PadZero(record_data, pad_length) ==
    record_data \o [k \in 1..pad_length |-> 0]

\* np.pad(record_data, (0, pad_length), mode='edge')
PadEdge(record_data, pad_length) ==
    record_data \o [k \in 1..pad_length |-> record_data[Len(record_data)]]

\* The inner loop of step 4 for one record: one writePhysicalSamples call
\* per channel, in index order.
RecordWrites(idx) ==
    LET start_sample == idx * samples_per_record
        width == Len(data[1])
        end_sample == IF (idx + 1) * samples_per_record < width
                      THEN (idx + 1) * samples_per_record ELSE width
    IN  [ch_idx \in DOMAIN data |->
           LET record_data == SubSeq(data[ch_idx], start_sample + 1, end_sample)
           IN  [ch_idx |-> ch_idx - 1,
                samples |->
                  IF Len(record_data) < samples_per_record /\ idx = n_records - 1
                  THEN PadEdge(record_data, samples_per_record - Len(record_data))
                  ELSE record_data]]

SignalRegisters ==
    /\ channels_converted = <<>>
    /\ signal_headers = <<>>
    /\ samples_per_record = 0
    /\ n_records = 0
    /\ record_idx = 0
    /\ samples_written = <<>>

NoRaw == [ch_names |-> <<>>, data |-> <<>>, sfreq |-> 0]

SignalIdle ==
    /\ raw = NoRaw
    /\ n_pc = "idle"
    /\ data = <<>>
    /\ SignalRegisters

\* The channel names MNE hands over are unique.
ChannelLists ==
    LET names == {<<"E","M","G">>, <<"F","l","o","w">>}
    IN  {<<a>> : a \in names} \cup {c \in {<<a, b>> : a \in names, b \in names} : c[1] # c[2]}

SampleValues == {-300, 0, 200}

RECURSIVE SampleRows(_)
SampleRows(n) ==
    IF n = 0 THEN {<<>>}
    ELSE {Append(r, v) : r \in SampleRows(n - 1), v \in SampleValues}

\* Step 1: raw = mne.io.read_raw_edf(...), data = raw.get_data().
SignalInit ==
    /\ \E names \in ChannelLists, n \in 1..MaxSamples, sfreq \in 1..(2 * MaxRate + 1) :
          \E d \in [DOMAIN names -> SampleRows(n)] :
             raw = [ch_names |-> names, data |-> d, sfreq |-> sfreq]
    /\ data = raw.data
    /\ n_pc = "rescale"
    /\ SignalRegisters

\* Step 2: the biosignal channels are multiplied by 1e6.
Rescale ==
    /\ n_pc = "rescale"
    /\ data' = [i \in DOMAIN data |-> Rescaled(raw.ch_names[i], data[i])]
    /\ channels_converted' = ConvertedNames(raw.ch_names)
    /\ n_pc' = "headers"
    /\ UNCHANGED <<raw, signal_headers, samples_per_record, n_records, record_idx, samples_written>>
    /\ UNCHANGED notSignal

\* Step 3: one header per channel.
PrepareHeaders ==
    /\ n_pc = "headers"
    /\ signal_headers' =
          [i \in DOMAIN data |->
             SignalHeader(raw.ch_names[i], data[i], channels_converted, raw.sfreq)]
    /\ n_pc' = "open"
    /\ UNCHANGED <<raw, data, channels_converted, samples_per_record, n_records,
                   record_idx, samples_written>>
    /\ UNCHANGED notSignal

\* Step 4 up to the record loop: the writer is given the headers, and
\* samples_per_record and n_records are computed.  A frequency below 1 Hz
\* makes samples_per_record 0 and the division raise; what the writer does
\* with a header whose range is empty is the library's choice.
OpenWriter ==
    /\ n_pc = "open"
    /\ samples_per_record' = raw.sfreq \div 2
    /\ \/ /\ samples_per_record' = 0
          /\ n_records' = 0
          /\ n_pc' = "failed"
       \/ /\ samples_per_record' > 0
          /\ n_records' = (Len(data[1]) + samples_per_record' - 1) \div samples_per_record'
          /\ n_pc' = "write"
    /\ UNCHANGED <<raw, data, channels_converted, signal_headers, record_idx, samples_written>>
    /\ UNCHANGED notSignal

\* Step 4, one pass of the record loop.
WriteRecord ==
    /\ n_pc = "write"
    /\ record_idx < n_records
    /\ \/ /\ samples_written' = samples_written \o RecordWrites(record_idx)
          /\ record_idx' = record_idx + 1
          /\ n_pc' = "write"
       \/ /\ \E i \in DOMAIN signal_headers :
                signal_headers[i].physical_min >= signal_headers[i].physical_max
          /\ n_pc' = "failed"
          /\ UNCHANGED <<samples_written, record_idx>>
    /\ UNCHANGED <<raw, data, channels_converted, signal_headers, samples_per_record,
                   n_records>>
    /\ UNCHANGED notSignal

\* f.close() after the last record.
CloseWriter ==
    /\ n_pc = "write"
    /\ record_idx = n_records
    /\ n_pc' = "closed"
    /\ UNCHANGED <<raw, data, channels_converted, signal_headers, samples_per_record,
                   n_records, record_idx, samples_written>>
    /\ UNCHANGED notSignal

SignalNext ==
    \/ Rescale
    \/ PrepareHeaders
    \/ OpenWriter
    \/ WriteRecord
    \/ CloseWriter

\* ---------------------------------------------------------- specifications
NoRecording == [start |-> Time(0, 0), annotations |-> <<>>, readable |-> FALSE]

vars == <<batchVars, extractVars, sheetVars, detectVars, signalVars>>

\* The command line tool on a path.
Init ==
    /\ BatchInit
    /\ recording = NoRecording
    /\ x_pc = "idle"
    /\ ExtractIdle
    /\ SheetIdle
    /\ DetectIdle
    /\ SignalIdle

Next == BatchNext

Spec == Init /\ [][Next]_vars

\* The embedded-annotation extractor on one recording.
InitExtract ==
    /\ ExtractInit
    /\ target = "file"
    /\ dir = <<>>
    /\ disk = <<>>
    /\ BatchStart
    /\ SheetIdle
    /\ DetectIdle
    /\ SignalIdle

NextExtract == ExtractNext

SpecExtract == InitExtract /\ [][NextExtract]_vars


\* The same tool under fair scheduling: the interpreter keeps running and
\* every child started by subprocess.run ends.
FairSpec == Spec /\ WF_vars(Next)

\* convert_directory on a directory: any listing of up to MaxFiles entries,
\* and the batch of spec.md section 8, ScenarioConvertible recordings that
\* convert (annotations embedded, or Standard with a spreadsheet) and one
\* Standard recording without spreadsheet, listed in any order.
ConvertibleKinds == {PlainRecording, [StandardRecording EXCEPT !.xlsx = TRUE]}

\* The listings of n entries whose b-th entry is the Standard recording
\* without spreadsheet and whose other entries convert.
RECURSIVE ScenarioPrefix(_, _)
ScenarioPrefix(n, b) ==
    IF n = 0 THEN {<<>>}
    ELSE {Append(d, Entry(n, ext, 0, rec)) :
            d \in ScenarioPrefix(n - 1, b),
            ext \in {ext_edf, ext_EDF},
            rec \in IF n = b THEN {StandardRecording} ELSE ConvertibleKinds}

ScenarioListings ==
    UNION {ScenarioPrefix(ScenarioConvertible + 1, b) : b \in 1..(ScenarioConvertible + 1)}

InitScenario ==
    /\ target = "dir"
    /\ dir \in ScenarioListings \cup UNION {Listings(n) : n \in 0..MaxFiles}
    /\ \E prior \in {"absent", "stale"} : disk = [p \in OutputsOf(dir) |-> prior]
    /\ BatchStart
    /\ recording = NoRecording
    /\ x_pc = "idle"
    /\ ExtractIdle
    /\ SheetIdle
    /\ DetectIdle
    /\ SignalIdle

NextScenario ==
    \/ Main
    \/ Classify
    \/ SelectConverter
    \/ ChildExit
    \/ CheckReturn
    \/ Report
    \/ BatchRecord
    \/ BatchSummary

SpecScenario == InitScenario /\ [][NextScenario]_vars

\* The spreadsheet-annotation extractor on one grid.
InitSheet ==
    /\ SheetInit
    /\ target = "file"
    /\ dir = <<>>
    /\ disk = <<>>
    /\ BatchStart
    /\ recording = NoRecording
    /\ x_pc = "idle"
    /\ ExtractIdle
    /\ DetectIdle
    /\ SignalIdle

SpecSheet == InitSheet /\ [][SheetNext]_vars

\* The classifier on one file, and on the file the header-normalizing
\* converter makes of it.
InitDetect ==
    /\ DetectInit
    /\ target = "file"
    /\ dir = <<>>
    /\ disk = <<>>
    /\ BatchStart
    /\ recording = NoRecording
    /\ x_pc = "idle"
    /\ ExtractIdle
    /\ SheetIdle
    /\ SignalIdle

SpecDetect == InitDetect /\ [][DetectNext]_vars

\* The header-normalizing converter on the signals of one recording.
InitSignal ==
    /\ SignalInit
    /\ target = "file"
    /\ dir = <<>>
    /\ disk = <<>>
    /\ BatchStart
    /\ recording = NoRecording
    /\ x_pc = "idle"
    /\ ExtractIdle
    /\ SheetIdle
    /\ DetectIdle

SpecSignal == InitSignal /\ [][SignalNext]_vars

\* ------------------------------------------------------------------ claims
Scripts == [k \in DOMAIN spawned |-> spawned[k].script]
Successes(rs) == {k \in DOMAIN rs : rs[k].result.success}
Failures(rs) == {k \in DOMAIN rs : ~rs[k].result.success}

\* C1 (as claimed): when the embedded-annotation extractor fails while
\* reading the recording, the outcome convert_single_file returns for that
\* file has success = false and a non-empty error detail.
C1_ReadFailureReported ==
    ( /\ pc = "returned"
      /\ Scripts = <<ExtractorScript>>
      /\ dir[cur].rec.extractor = "corrupt"
      /\ completed.stdout = <<"An error occurred while processing">> )
        => /\ ~outcome.success
           /\ ~outcome.error.none
           /\ outcome.error.text # <<>>

\* C2: the tool exits with code 0 exactly when every file of the batch ended
\* with a successful outcome (a single file: when that file succeeded); a
\* missing path, a directory without recording and a failed file give a
\* nonzero code.
C2_ExitCode ==
    pc = "exit" =>
        /\ exitcode = 0 <=>
             \/ target = "file" /\ outcome.success
             \/ /\ target = "dir"
                /\ edf_files # <<>>
                /\ Len(results) = Len(edf_files)
                /\ Failures(results) = {}
        /\ exitcode # 0 <=>
             \/ target \in {"missing", "other"}
             \/ target = "file" /\ ~outcome.success
             \/ target = "dir" /\ (edf_files = <<>> \/ Failures(results) # {})

\* C2 witness: a batch of two files ended, one of them failed, exit code 1.
C2_Witness ==
    /\ pc = "exit"
    /\ target = "dir"
    /\ Len(results) = 2
    /\ Cardinality(Failures(results)) = 1
    /\ exitcode = 1

\* C3 (as claimed): a missing file is classified Invalid with a non-empty
\* message, and for every verdict other than Invalid at least one converter
\* is invoked before convert_single_file returns.
C3_OnlyInvalidHalts ==
    pc = "returned" =>
        /\ ~dir[cur].rec.exists =>
             result.type = "Invalid" /\ ~result.error.none /\ result.error.text # <<>>
        /\ result.type # "Invalid" => spawned # <<>>

\* C3 (amended): a missing file is classified Invalid with a non-empty
\* message; Invalid is the only verdict for which convert_single_file
\* returns straight after classification, every other verdict goes on to
\* the selection of a strategy; and a converter is invoked whenever the
\* verdict is EDF+C with annotations or Standard with a companion spreadsheet.
C3_InvalidReturnsAtOnce ==
    /\ [](pc \in {"select", "wait", "check", "report", "returned"} =>
            /\ ~dir[cur].rec.exists =>
                 result.type = "Invalid" /\ ~result.error.none /\ result.error.text # <<>>
            /\ result.type = "Invalid" =>
                 /\ pc = "returned"
                 /\ spawned = <<>>
                 /\ outcome = [success |-> FALSE, converter_used |-> None,
                               output_files |-> <<>>, error |-> result.error]
            /\ ( /\ pc = "returned"
                 /\ \/ result.type = "EDF+C" /\ result.has_annotations
                    \/ result.type = "Standard" /\ ~result.excel_file.none )
                   => spawned # <<>>)
    /\ [][pc = "classify" =>
            /\ result'.type = "Invalid" => pc' = "returned"
            /\ result'.type # "Invalid" => pc' = "select"]_vars

\* C3 witness: a missing file has been classified and the outcome returned.
C3_Witness ==
    /\ pc = "returned"
    /\ ~dir[cur].rec.exists
    /\ result.type = "Invalid"
    /\ ~outcome.success

\* C4 (as claimed): the strategy is chosen by the verdict: the extractor
\* alone for EDF+C, the header-normalizing converter and then the extractor
\* for EDF+D, the spreadsheet extractor for Standard with a spreadsheet; a
\* strategy that ran to its end leaves the three text files written.
C4_ThreeStrategies ==
    pc = "returned" =>
        /\ (result.type = "EDF+C" /\ result.has_annotations) =>
             Scripts = <<ExtractorScript>>
        /\ result.type = "EDF+D" =>
             /\ Len(Scripts) = 2
             /\ Scripts[2] = ExtractorScript
        /\ (result.type = "Standard" /\ ~result.excel_file.none /\ outcome.success) =>
             /\ \E k \in DOMAIN Scripts : Scripts[k] = SpreadsheetScript
             /\ \A p \in TextOutputs(dir[cur]) : disk[p] = "fresh"

\* C5: in a batch every failure becomes the outcome of its file and the
\* batch goes on: the run ends, and at its end every file found has exactly
\* one outcome, in batch order, the failed ones with their error.
C5_BatchCompletes ==
    /\ <>(pc = "exit")
    /\ []((pc = "exit" /\ target = "dir" /\ edf_files # <<>>) =>
            /\ Len(results) = Len(edf_files)
            /\ \A k \in DOMAIN results :
                 /\ results[k].file = PathOf(dir[edf_files[k]])
                 /\ results[k].result.success <=> results[k].result.error.none)

\* C5 witness: the batch ended, its first file failed and its second file
\* was converted after it.
C5_Witness ==
    /\ pc = "exit"
    /\ Len(results) = 2
    /\ ~results[1].result.success
    /\ results[2].result.success

\* C6: the summary of convert_directory has total = success + failed = the
\* number of outcomes, success counts the successful outcomes, and results
\* lists the files in batch order; n convertible recordings and one Standard
\* recording without spreadsheet give {n + 1, n, 1}: {4, 3, 1} for n = 3.
C6_BatchSummary ==
    (pc = "exit" /\ ~batch_result.none) =>
        /\ batch_result.total = batch_result.success + batch_result.failed
        /\ batch_result.total = Len(batch_result.results)
        /\ batch_result.success = Cardinality(Successes(batch_result.results))
        /\ batch_result.failed = Cardinality(Failures(batch_result.results))
        /\ \A k \in DOMAIN batch_result.results :
             batch_result.results[k].file = PathOf(dir[edf_files[k]])
        /\ LET convertible == {k \in DOMAIN dir : dir[k].rec \in ConvertibleKinds}
               bare == {k \in DOMAIN dir : dir[k].rec = StandardRecording}
           IN  ( /\ \A k \in DOMAIN dir : dir[k].depth = 0 /\ dir[k].ext \in {ext_edf, ext_EDF}
                 /\ convertible \cup bare = DOMAIN dir
                 /\ Cardinality(bare) = 1 )
                 => /\ batch_result.total = Cardinality(convertible) + 1
                    /\ batch_result.success = Cardinality(convertible)
                    /\ batch_result.failed = 1
                    /\ Cardinality(convertible) = 3 =>
                         /\ batch_result.total = 4
                         /\ batch_result.success = 3
                         /\ batch_result.failed = 1

\* C6 witness: the batch of three convertible recordings and one Standard
\* recording without spreadsheet has ended.
C6_Witness ==
    /\ pc = "exit"
    /\ ~batch_result.none
    /\ Len(dir) = 4
    /\ Cardinality({k \in DOMAIN dir : dir[k].rec \in ConvertibleKinds}) = 3
    /\ Cardinality({k \in DOMAIN dir : dir[k].rec = StandardRecording}) = 1
    /\ batch_result.total = 4

\* C7 (as claimed): the batch holds every file under the directory, at any
\* depth, whose extension is 'edf' in any letter case, each exactly once,
\* and no other file.
C7_EveryRecordingFound ==
    (target = "dir" /\ pc # "main") =>
        \A k \in DOMAIN dir :
            LET places == {n \in DOMAIN edf_files : edf_files[n] = k}
            IN  IF Lower(dir[k].ext) = ext_edf
                THEN Cardinality(places) = 1
                ELSE places = {}

\* C8 (as claimed): every path in the output list of a successful outcome
\* is a file that exists and was written during this run.
C8_OutputsGenerated ==
    (pc = "returned" /\ outcome.success) =>
        \A n \in DOMAIN outcome.output_files : disk[outcome.output_files[n]] = "fresh"

\* The Start Time line of a written file.
StartStamps(f) == {f.header[n].stamp : n \in {m \in DOMAIN f.header :
                                                 f.header[m].text = "Start Time: "}}

IsStage(a) == Contains(a.event_text, kw_SleepStage)

Chosen(anns, n, P(_)) ==
    LET hit(k) == P(anns[k].event_text)
        idx == SelectSeq([k \in 1..n |-> k], hit)
    IN  [m \in DOMAIN idx |-> <<anns[idx[m]].event_text, anns[idx[m]].onset_sec>>]

Listed(events) ==
    [n \in DOMAIN events |->
        <<events[n].event_text, Minus(events[n].onset_dt_full, start_datetime)>>]

RuleStage(label) == Contains(label, kw_SleepStage)
RuleArousal(label) == ~RuleStage(label) /\ Contains(Lower(label), kw_arousal)
RuleFlow(label) ==
    /\ ~RuleStage(label)
    /\ ~Contains(Lower(label), kw_arousal)
    /\ \/ Contains(label, kw_Apnea)
       \/ Contains(label, kw_Hyp)
       \/ Contains(label, kw_Desat)
RuleNone(label) ==
    /\ ~Contains(label, kw_SleepStage)
    /\ ~Contains(Lower(label), kw_arousal)
    /\ ~Contains(label, kw_Apnea)
    /\ ~Contains(label, kw_Hyp)
    /\ ~Contains(label, kw_Desat)

\* C10: every annotation read goes to exactly one of SleepStage, Arousal,
\* FlowEvent or discarded, by the first matching rule in that order; the
\* rule looks at the label alone, and the three lists and the discarded
\* annotations add up to the annotations read.
C10_Categories ==
    x_pc \in {"categorize", "write_sleep_profile", "write_arousals",
              "write_flow_events", "done"} =>
        LET read == ann_i - 1 IN
        /\ Listed(sleep_stages) = Chosen(annotations, read, RuleStage)
        /\ Listed(arousals) = Chosen(annotations, read, RuleArousal)
        /\ Listed(flow_events) = Chosen(annotations, read, RuleFlow)
        /\ Len(sleep_stages) + Len(arousals) + Len(flow_events)
             + Len(Chosen(annotations, read, RuleNone)) = read

\* C10 witness: the loop has ended on a list holding a label that matches
\* the arousal rule only in lower case and the flow rule as well, and a
\* label that matches no rule.
C10_Witness ==
    /\ x_pc = "write_sleep_profile"
    /\ Len(annotations) = 2
    /\ annotations[1].event_text = <<"A","r","o","u","s","a","l"," ","H","y","p","o","p","n","e","a">>
    /\ annotations[2].event_text = <<"L","i","g","h","t","s"," ","o","f","f">>
    /\ Len(arousals) = 1
    /\ flow_events = <<>>

\* The rows of the grid that the three filters keep.
StageRows == SelectedRows(df.rows, {pat_Stage})
ArousalRows == SelectedRows(df.rows, {pat_Arousal})
FlowRows == SelectedRows(df.rows, {pat_Respiratory, pat_Desaturation})

\* C11: no spreadsheet row is counted twice: once the three lists are
\* extracted, each holds one event per row its filter keeps, and the rows kept
\* as sleep stages, as arousals and as flow events are pairwise disjoint.
C11_NoRowTwice ==
    xl_pc \in {"write_sleep_profile", "write_arousals", "write_flow_events", "done"} =>
        /\ Len(xl_sleep_stages) = Cardinality(StageRows)
        /\ Len(xl_arousals) = Cardinality(ArousalRows)
        /\ Len(xl_flow_events) = Cardinality(FlowRows)
        /\ StageRows \cap ArousalRows = {}
        /\ StageRows \cap FlowRows = {}
        /\ ArousalRows \cap FlowRows = {}

\* A time of day as it is printed, 'HH:MM:SS,ffffff'.
Clock(h, m, s, f) == [hour |-> h, minute |-> m, second |-> s, microsecond |-> f]

\* C12: for the annotations (0, 0, 'Sleep stage W'), (30, 0, 'Sleep stage R'),
\* (35, 12, 'EEG arousal') and the header start 22:00:00 the extractor writes
\* the Sleep-profile lines '22:00:00,000000; W' and '22:00:30,000000; REM' in
\* that order, the one Arousals line
\* '22:00:35,000000-22:00:47,000000; 12;EEG arousal', and no Flow-Events line.
C12_ExampleLines ==
    (x_pc = "done" /\ recording = ExampleRecording) =>
        /\ files[SleepProfileTail].rows =
             << <<TimePiece(Clock(22, 0, 0, 0)), Lit("; "), StrPiece(<<"W">>)>>,
                <<TimePiece(Clock(22, 0, 30, 0)), Lit("; "), StrPiece(<<"R","E","M">>)>> >>
        /\ files[ArousalsTail].rows =
             << <<TimePiece(Clock(22, 0, 35, 0)), Lit("-"),
                  TimePiece(Clock(22, 0, 47, 0)), Lit("; "), NumPiece(<<12>>),
                  Lit(";"), StrPiece(<<"E","E","G"," ","a","r","o","u","s","a","l">>) >> >>
        /\ files[FlowEventsTail].exists
        /\ files[FlowEventsTail].rows = <<>>

\* The example recording has been converted.
C12_Witness ==
    /\ x_pc = "done"
    /\ recording = ExampleRecording
    /\ Len(files[SleepProfileTail].rows) = 2
    /\ Len(files[ArousalsTail].rows) = 1

\* C13: the normalizing converter reports success only when the file it wrote
\* re-opens; when the re-open fails the conversion fails with 'Verification
\* failed...' although the output file stays on disk, and the dispatcher
\* marks the recording failed without running the spreadsheet extraction.
C13_VerifiedBeforeSuccess ==
    LET e == dir[cur]
        out == OutputPath(e, EdfPlusTail)
    IN  /\ (pc = "check" /\ Scripts = <<NormalizerScript>>) =>
              /\ completed.returncode = 0 =>
                    (e.rec.normalizer = "ok" /\ disk[out] = "fresh")
              /\ e.rec.normalizer = "unverified" =>
                    /\ completed.returncode # 0
                    /\ completed.stdout[2] = "Verification failed: "
                    /\ ~convert_standard_to_edfplus(e).success
                    /\ disk[out] = "fresh"
        /\ (pc = "returned" /\ spawned # <<>> /\ Scripts[1] = NormalizerScript
              /\ e.rec.normalizer = "unverified") =>
              /\ ~outcome.success
              /\ ~outcome.error.none
              /\ Scripts = <<NormalizerScript>>
              /\ outcome.output_files = <<>>
              /\ disk[out] = "fresh"

\* A recording whose normalized file does not re-open has been handled: its
\* outcome is a failure and the written file is on disk.
C13_Witness ==
    /\ pc = "returned"
    /\ Scripts = <<NormalizerScript>>
    /\ dir[cur].rec.normalizer = "unverified"
    /\ ~outcome.success
    /\ disk[OutputPath(dir[cur], EdfPlusTail)] = "fresh"

\* C15: whenever a converter child exits with a nonzero code, all that it
\* wrote to its standard error is in the completed process and, after the
\* prefix, in the error of the file's outcome; nothing a child prints is on
\* the terminal.
C15_StderrCaptured ==
    /\ terminal = <<>>
    /\ (pc = "returned" /\ spawned # <<>> /\ completed.returncode # 0) =>
          LET last == spawned[Len(spawned)]
              child == RunChild(last.script, dir[cur], disk)
          IN  /\ completed.stderr = child.stderr
              /\ ~outcome.success
              /\ ~outcome.error.none
              /\ SubSeq(outcome.error.text, 2, Len(outcome.error.text)) = child.stderr

\* A child has failed with a traceback on its standard error, and the
\* outcome of the file quotes it.
C15_Witness ==
    /\ pc = "returned"
    /\ spawned # <<>>
    /\ completed.returncode # 0
    /\ completed.stderr = <<"Traceback">>
    /\ outcome.error.text = <<"EDF conversion failed: ", "Traceback">>

\* C14: detect_edf_format leaves no handle open: on every return path, the
\* one where an operation fails after the structured reader opened the file
\* included, every handle it opened is closed when it returns, and the file
\* it probed is as it was.
C14_NoHandleLeftOpen ==
    d_pc = "returned" => handles = {}

\* The events of the spreadsheet extractor as the embedded extractor's writers
\* take them.
AsEvents(entries) ==
    [n \in DOMAIN entries |->
        [onset_dt_full |-> entries[n].onset_time, end_dt_full |-> entries[n].end_time,
         event_text |-> entries[n].type]]

\* Two written files are the same but for the duration of each row: the same
\* header lines, and row for row the same pieces except the fifth.
SameButDuration(a, b) ==
    /\ a.header = b.header
    /\ Len(a.rows) = Len(b.rows)
    /\ \A n \in DOMAIN a.rows :
          /\ Len(a.rows[n]) = Len(b.rows[n])
          /\ \A k \in DOMAIN a.rows[n] : k # 5 => a.rows[n][k] = b.rows[n][k]

\* C16: both extractors write the Arousals and the Flow-Events file in the
\* same layout: for the same events, what the spreadsheet extractor wrote and
\* what the embedded extractor's writer writes differ in the duration only,
\* and there is no space between the second semicolon and the label.
C16_SameLayout ==
    xl_pc = "done" =>
        /\ SameButDuration(xl_files[ArousalsTail],
                           ImpulsFile("Signal ID: Arousals", edf_start_time,
                                      AsEvents(xl_arousals)))
        /\ SameButDuration(xl_files[FlowEventsTail],
                           ImpulsFile("Signal ID: FlowEvents", edf_start_time,
                                      AsEvents(xl_flow_events)))
        /\ \A t \in {ArousalsTail, FlowEventsTail} :
              \A n \in DOMAIN xl_files[t].rows : xl_files[t].rows[n][6] = Lit(";")

\* C17: running the embedded extractor twice on the same recording leaves the
\* three output files as they were after the first run: each run replaces the
\* files, whatever they held, by content that depends on the recording only.
C17_SecondRunSameFiles ==
    /\ (runs >= 2 /\ x_pc \in {"done", "failed"}) => files = first_files
    /\ x_pc = "done" =>
          /\ files[SleepProfileTail] = SleepProfileFile(effective_start, sleep_stages)
          /\ files[ArousalsTail] =
                ImpulsFile("Signal ID: Arousals", effective_start, arousals)
          /\ files[FlowEventsTail] =
                ImpulsFile("Signal ID: FlowEvents", effective_start, flow_events)

\* A second run has ended on a recording with a sleep stage and an arousal.
C17_Witness ==
    /\ runs = 2
    /\ x_pc = "done"
    /\ files = first_files
    /\ files[ArousalsTail].rows # <<>>
    /\ files[SleepProfileTail].rows # <<>>

\* C18: for every recording the normalizing converter converts, the
\* classifier run on the converter's output reports reader compatibility,
\* the channel count of the input recording and, in the same order and at
\* the same indices, the labels of the input recording.
C18_RoundTrip ==
    (d_pc = "returned" /\ ~source.none) =>
        LET labels == source.probe.labels IN
        /\ d_result.pyedflib_compatible
        /\ d_result.num_signals = Len(labels)
        /\ d_result.emg_channels = EmgChannels(labels, Len(labels))

\* C19: for every header that holds a decimal signal count n and n labels,
\* the fallback on the header's bytes recovers num_signals = n and each of
\* the n labels, at its channel index.
C19_HeaderRecovered ==
    (/\ d_pc = "returned"
     /\ source.none
     /\ probe.exists /\ ~probe.opens /\ probe.header_readable
     /\ HeaderCount(probe.count_field) = Len(probe.labels)) =>
        /\ d_result.num_signals = Len(probe.labels)
        /\ \A k \in DOMAIN probe.labels :
              \E m \in DOMAIN d_result.emg_channels :
                  d_result.emg_channels[m] = <<k - 1, Strip(probe.labels[k])>>

\* C20: files of one batch share no mutable state: every output path is
\* written by the conversion of one recording only, never by that of
\* another recording of the same batch.
C20_OutputsNotShared ==
    \A p \in DOMAIN written_by :
        \A i, j \in DOMAIN written_by[p] : written_by[p][i] = written_by[p][j]

\* C21: batch processing is strictly sequential: a converter child runs only
\* while its caller waits for it, so no two children run at a time; output
\* files change only while a child runs; and the classification of a file
\* begins only when no child runs and, for every file after the first, when
\* the file before it has returned and its outcome is recorded.
C21_Sequential ==
    /\ [](proc # NoProc => pc = "wait")
    /\ []((pc = "classify" /\ target = "dir") =>
            (proc = NoProc /\ spawned = <<>> /\ Len(results) = pos - 1))
    /\ [][disk' # disk => (pc = "wait" /\ pc' = "check" /\ proc' = NoProc)]_vars
    /\ [][(pc' = "classify" /\ pc # "main") =>
            /\ pc = "returned"
            /\ proc = NoProc
            /\ results' = Append(results, [file |-> PathOf(dir[cur]), result |-> outcome])
            /\ pos' = pos + 1
            /\ cur' = edf_files[pos']]_vars

\* The second file of a batch is about to be classified, after a converter
\* child of the first has run and written its output files.
C21_Witness ==
    /\ pc = "classify"
    /\ target = "dir"
    /\ pos = 2
    /\ ~results[1].result.converter_used.none
    /\ \E p \in DOMAIN written_by : written_by[p] = <<edf_files[1]>>

\* The verdict on an existing file, given whether the reads of the structured
\* reader went through.
VerdictIs(reads_ok) ==
    /\ reads_ok =>
          /\ d_result.type = (IF probe.filetype = 1 THEN "EDF+C"
                              ELSE IF probe.filetype = 2 THEN "EDF+D" ELSE "Standard")
          /\ d_result.pyedflib_compatible
          /\ d_result.has_annotations = (probe.annotations_in_file > 0)
    /\ ~reads_ok =>
          /\ d_result.type = "Standard"
          /\ ~d_result.pyedflib_compatible
    /\ d_result.excel_file = (IF probe.xlsx THEN Str(ext_xlsx)
                              ELSE IF probe.XLSX THEN Str(ext_XLSX) ELSE None)
    /\ d_result.type # "Unknown"

\* The structured reader opens the file and every read that follows succeeds.
ReadsSucceed ==
    /\ probe.opens
    /\ probe.fail_at = "label" => probe.labels = <<>>
    /\ probe.fail_at \in {"none", "label"}

AfterMarker(text, marker) ==
    LET at == IndexOf(Lower(text), Lower(marker))
    IN  Strip(SubSeq(text, at + Len(marker), Len(text)))

\* The Sleep-profile lines the selected rows are to produce.
ExpectedStageLines ==
    LET selected == SelectRows(df.rows, {pat_Stage})
        name(n) == AfterMarker(selected[n].text, pat_Stage)
        kept(n) == name(n) \notin {txt_NoStage, txt_NoStage1}
        idx == SelectSeq([n \in DOMAIN selected |-> n], kept)
    IN  [m \in DOMAIN idx |->
           <<TimePiece(FormatTime(parse_timestamp(selected[idx[m]].time, edf_start_time))),
             Lit("; "),
             StrPiece(IF name(idx[m]) \in {txt_R, txt_REM} THEN txt_REM
                      ELSE name(idx[m]))>>]

\* C23: for every row whose description contains 'Stage -' in any letter
\* case the stage name is the text after that marker, trimmed; 'No Stage' and
\* 'NoStage' give no line, 'R' and 'REM' are written 'REM', and every other
\* selected row gives one line, in row order.
C23_StageLines ==
    xl_pc = "done" => xl_files[SleepProfileTail].rows = ExpectedStageLines

\* The duration and the subtype the arousal descriptions of the inputs are to
\* give.
ArousalExpected(text) ==
    CASE text = <<"A","r","o","u","s","a","l"," ","-"," ","D","u","r",":"," ","1","9",".","6"," ","s","e","c","."," ","-"," ","R","E","R","A">> ->
           [duration |-> Time(19, 600000), type |-> <<"R","E","R","A">>]
      [] text = <<"A","r","o","u","s","a","l"," ","-"," ","D","u","r",":"," ","8",".","1"," ","s","e","c","."," ","-"," ","R","e","s","p","i","r","a","t","o","r","y"," ","E","v","e","n","t">> ->
           [duration |-> Time(8, 100000), type |-> <<"R","e","s","p","i","r","a","t","o","r","y"," ","E","v","e","n","t">>]
      [] text = <<"A","r","o","u","s","a","l"," ","-"," ","D","u","r",":"," ","x"," ","s","e","c",".">> ->
           [duration |-> Time(0, 0), type |-> <<"A","r","o","u","s","a","l">>]
      [] text = <<"A","r","o","u","s","a","l"," ","-"," ","R","E","R","A">> ->
           [duration |-> Time(0, 0), type |-> <<"A","r","o","u","s","a","l">>]

\* C24: every arousal row gives one entry, in row order, whose duration is
\* the number between 'Dur:' and 'sec.' (0.0 when the marker is absent or the
\* number does not parse), whose subtype is the text after the last ' - ' when
\* there are at least three segments and 'Arousal' otherwise, and whose end
\* is its onset plus its duration.
C24_ArousalFields ==
    xl_pc \in {"extract_flow_events", "write_sleep_profile", "write_arousals",
               "write_flow_events", "done"} =>
        LET arousal_rows == SelectRows(df.rows, {pat_Arousal}) IN
        /\ Len(xl_arousals) = Len(arousal_rows)
        /\ \A n \in DOMAIN arousal_rows :
              /\ xl_arousals[n].duration = ArousalExpected(arousal_rows[n].text).duration
              /\ xl_arousals[n].type = ArousalExpected(arousal_rows[n].text).type
              /\ xl_arousals[n].onset_time =
                    parse_timestamp(arousal_rows[n].time, edf_start_time)
              /\ xl_arousals[n].end_time =
                    Plus(xl_arousals[n].onset_time, xl_arousals[n].duration)

\* The row 'Arousal - Dur: 19.6 sec. - RERA' has been extracted with duration
\* 19.6 and subtype 'RERA', after a row without a duration.
C24_Witness ==
    /\ xl_pc = "done"
    /\ Len(xl_arousals) = 2
    /\ xl_arousals[1].duration = Time(0, 0)
    /\ xl_arousals[1].type = <<"A","r","o","u","s","a","l">>
    /\ xl_arousals[2].duration = Time(19, 600000)
    /\ xl_arousals[2].type = <<"R","E","R","A">>
    /\ xl_arousals[2].end_time = Plus(xl_arousals[2].onset_time, Time(19, 600000))

\* The absolute time a cell of the inputs is to give, for the header start
\* 22:00:00 on day 0: the time of day on day 0 with the hundredths as
\* microseconds, and the header start for the cell that is no time.
OnsetExpected(cell) ==
    CASE cell = <<"2","2",":","0","0",":","3","0",".","5","0">> -> Time(22 * SecondsPerHour + 30, 500000)
      [] cell = <<"0","0",":","1","0",":","0","0",".","0","0">> -> Time(10 * SecondsPerMinute, 0)
      [] cell = <<"n","/","a">> -> edf_start_time

\* The entries extracted from the rows a filter keeps have the expected onsets.
OnsetsAsExpected(entries, rows) ==
    /\ Len(entries) = Len(rows)
    /\ \A n \in DOMAIN rows : entries[n].onset_time = OnsetExpected(rows[n].time)

\* C25: a cell HH:MM:SS.ff becomes the header's date with that time of day
\* and ff x 10000 microseconds; a cell that does not parse gives the header
\* start time and a warning, its row is still emitted, and the conversion
\* does not fail.
C25_Timestamps ==
    LET arousal_rows == SelectRows(df.rows, {pat_Arousal})
        unparsed == {n \in DOMAIN arousal_rows : arousal_rows[n].time = <<"n","/","a">>}
    IN  /\ df.readable => xl_pc # "failed"
        /\ xl_pc \in {"write_sleep_profile", "write_arousals", "write_flow_events",
                      "done"} =>
              /\ OnsetsAsExpected(xl_sleep_stages, SelectRows(df.rows, {pat_Stage}))
              /\ OnsetsAsExpected(xl_arousals, arousal_rows)
              /\ OnsetsAsExpected(xl_flow_events,
                                  SelectRows(df.rows, {pat_Respiratory, pat_Desaturation}))
              /\ xl_warnings = [n \in 1..Cardinality(unparsed) |-> <<"n","/","a">>]
        /\ xl_pc = "done" =>
              /\ Len(xl_files[ArousalsTail].rows) = Len(arousal_rows)
              /\ \A n \in unparsed :
                    xl_files[ArousalsTail].rows[n][1] = TimePiece(FormatTime(edf_start_time))

\* A grid with a cell that is no time and a cell that is one has been
\* converted: one warning, both rows written.
C25_Witness ==
    /\ xl_pc = "done"
    /\ Len(df.rows) = 2
    /\ df.rows[1].time = <<"n","/","a">>
    /\ df.rows[2].time = <<"2","2",":","0","0",":","3","0",".","5","0">>
    /\ xl_warnings = <<<<"n","/","a">>>>
    /\ xl_arousals[1].onset_time = edf_start_time
    /\ Len(xl_files[ArousalsTail].rows) = 2
    /\ xl_arousals[2].onset_time = Time(22 * SecondsPerHour + 30, 500000)

\* The onsets of all events the extractor emitted.
EmittedOnsets ==
    {xl_sleep_stages[n].onset_time : n \in DOMAIN xl_sleep_stages}
        \cup {xl_arousals[n].onset_time : n \in DOMAIN xl_arousals}
        \cup {xl_flow_events[n].onset_time : n \in DOMAIN xl_flow_events}

\* t is at or after u.
NotBefore(t, u) == t.s > u.s \/ (t.s = u.s /\ t.us >= u.us)

\* C29: every emitted event's absolute onset is at or after the header start
\* time, so that in a recording that starts before midnight an event whose
\* time of day is after midnight is later than the events before midnight.
C29_OnsetsNotBeforeStart ==
    xl_pc = "done" => \A t \in EmittedOnsets : NotBefore(t, edf_start_time)

\* No branch of the strategy selection matches the verdict.
NoStrategy(r) ==
    /\ ~(r.type = "EDF+C" /\ r.has_annotations)
    /\ r.type # "EDF+D"
    /\ ~(r.type = "Standard" /\ ~r.excel_file.none)

\* C28: every result convert_single_file returns has success iff error is
\* None, no output files when it is a failure, and converter_used None iff the
\* verdict was Invalid or no strategy matched; and the spreadsheet extractor
\* is started only after the normalizer exited with code 0, with the
\* recording and the classifier's spreadsheet path as its arguments.
C28_ResultInvariants ==
    /\ [](pc = "returned" =>
            /\ outcome.success <=> outcome.error.none
            /\ ~outcome.success => outcome.output_files = <<>>
            /\ outcome.converter_used.none <=>
                  (result.type = "Invalid" \/ NoStrategy(result)))
    /\ [][(Len(spawned') > Len(spawned)
             /\ spawned'[Len(spawned')].script = SpreadsheetScript) =>
            /\ pc = "check"
            /\ Scripts = <<NormalizerScript>>
            /\ completed.returncode = 0
            /\ ~result.excel_file.none
            /\ spawned'[Len(spawned')].args =
                  <<PathOf(dir[cur]), Sibling(dir[cur], result.excel_file.text)>>]_vars

\* A Standard recording with spreadsheet has gone through both children and
\* has returned as a success with its four output files.
C28_Witness ==
    /\ pc = "returned"
    /\ Scripts = <<NormalizerScript, SpreadsheetScript>>
    /\ outcome.success
    /\ Len(outcome.output_files) = 4

\* The largest absolute value among the samples.
Peak(samples) ==
    CHOOSE v \in {Abs(samples[k]) : k \in DOMAIN samples} :
       \A k \in DOMAIN samples : Abs(samples[k]) <= v

\* The samples MNE read, in the unit the headers are computed in.
InHeaderUnit(i) ==
    IF IsBiosignal(raw.ch_names[i])
    THEN [k \in DOMAIN raw.data[i] |-> raw.data[i][k] * 1000000]
    ELSE raw.data[i]

HeadersPrepared == n_pc \in {"open", "write", "closed", "failed"}

\* C26: every channel's header has physical_max = 2 x max(|smallest sample|,
\* |largest sample|) of the rescaled samples and physical_min = -physical_max,
\* except that a biosignal channel whose doubled maximum is below 500 has
\* exactly [-500, 500]; digital_min is -32768 and digital_max is 32767.
C26_PhysicalRange ==
    HeadersPrepared =>
       /\ Len(signal_headers) = Len(raw.ch_names)
       /\ \A i \in DOMAIN signal_headers :
             LET doubled == 2 * Peak(InHeaderUnit(i))
                 h == signal_headers[i]
             IN  /\ h.digital_min = -32768
                 /\ h.digital_max = 32767
                 /\ IF IsBiosignal(raw.ch_names[i]) /\ doubled < 500 * 1000000
                    THEN h.physical_min = -500 * 1000000 /\ h.physical_max = 500 * 1000000
                    ELSE h.physical_max = doubled /\ h.physical_min = -doubled

\* A rescaled channel above the floor beside a channel that is not rescaled.
C26_Witness ==
    /\ n_pc = "closed"
    /\ raw.ch_names = <<<<"E","M","G">>, <<"F","l","o","w">>>>
    /\ raw.data = <<<<-300, 200>>, <<200, -300>>>>
    /\ signal_headers[1].physical_max = 600000000
    /\ signal_headers[2].physical_max = 600

\* C27: N samples per channel at R samples per record are written as
\* ceil(N / R) records of exactly R samples per channel, record by record
\* with the channels in index order; each channel's records, concatenated,
\* start with its N samples in order, only the final record is padded and
\* every padding sample equals the channel's last sample.
C27_Records ==
    n_pc = "closed" =>
       LET N == Len(data[1])
           R == samples_per_record
           C == Len(data)
           K == CHOOSE k \in 0..N : k * R >= N /\ (k - 1) * R < N
       IN  /\ Len(samples_written) = K * C
           /\ \A j \in DOMAIN samples_written :
                 /\ samples_written[j].ch_idx = (j - 1) % C
                 /\ Len(samples_written[j].samples) = R
           /\ \A c \in 1..C : \A p \in 1..(K * R) :
                 LET record == (p - 1) \div R
                     sample == samples_written[record * C + c].samples[((p - 1) % R) + 1]
                 IN  IF p <= N THEN sample = data[c][p]
                     ELSE record = K - 1 /\ sample = data[c][N]

\* Three samples at two per record: a full record, then a padded one.
C27_Witness ==
    /\ n_pc = "closed"
    /\ Len(data) = 2
    /\ data[2] = <<200, 0, -300>>
    /\ samples_per_record = 2
    /\ n_records = 2
    /\ samples_written[4] = [ch_idx |-> 1, samples |-> <<-300, -300>>]

\* C30 (as claimed): every prepared header has physical_min < physical_max
\* and every sample of its channel lies within [physical_min, physical_max].
C30_ValidRanges ==
    HeadersPrepared =>
       \A i \in DOMAIN signal_headers :
          /\ signal_headers[i].physical_min < signal_headers[i].physical_max
          /\ \A k \in DOMAIN data[i] :
                /\ signal_headers[i].physical_min <= data[i][k]
                /\ data[i][k] <= signal_headers[i].physical_max

=============================================================================
